---- MODULE Spec2Model ----
(***************************************************************************)
(* CalligraphyDSL (src/grammar.py): a PLY lexer and LALR parser over a     *)
(* closed vocabulary, with the lookup and formatting code attached to the  *)
(* seven grammar rules.  A text is a sequence of characters, each a        *)
(* one-character string; a character outside the Basic Multilingual Plane  *)
(* (the emoji that open the answers) is written by its code point,         *)
(* "U+1F4D6".  Positions are 0-based as in the code: the character at      *)
(* lexpos is data[lexpos + 1].                                             *)
(***************************************************************************)
EXTENDS Integers, Sequences, FiniteSets, TLC

\* Bounds of the model.
MaxParts == 3
MaxNameLen == 3
MaxQueries == 3

\* ------------------------------------------------------------------ text

RECURSIVE Join(_, _)
\* sep.join(items)
Join(sep, items) ==
    IF Len(items) = 0 THEN <<>>
    ELSE IF Len(items) = 1 THEN items[1]
    ELSE items[1] \o sep \o Join(sep, Tail(items))

RECURSIVE Flatten(_)
Flatten(parts) ==
    IF Len(parts) = 0 THEN <<>> ELSE Head(parts) \o Flatten(Tail(parts))

\* sub occurs in s at 0-based position pos
StartsAt(s, pos, sub) ==
    /\ pos + Len(sub) <= Len(s)
    /\ \A i \in 1..Len(sub) : s[pos + i] = sub[i]

\* sub in s
Contains(s, sub) == \E pos \in 0..Len(s) : StartsAt(s, pos, sub)

Range(s) == {s[i] : i \in 1..Len(s)}

\* ------------------------------------------------------- knowledge base

\* self.calligraphers: a dict, kept in insertion order as a sequence of
\* entries; key is the dict key, the other fields the value.
CalligraphersInit == <<
    [key |-> <<"U+738B", "U+7FB2", "U+4E4B">> (* 王羲之 *), dynasty |-> <<"U+4E1C", "U+664B">> (* 东晋 *), style |-> <<"U+884C", "U+4E66">> (* 行书 *),
     works |-> <<<<"U+5170", "U+4EAD", "U+5E8F">> (* 兰亭序 *), <<"U+9EC4", "U+5EAD", "U+7ECF">> (* 黄庭经 *)>>,
     description |-> <<"U+4E66", "U+5723", "U+FF0C", "U+884C", "U+4E66", "U+4EE3", "U+8868", "U+4F5C", "U+300A", "U+5170", "U+4EAD", "U+5E8F", "U+300B", "U+88AB", "U+8A89", "U+4E3A", "U+5929", "U+4E0B", "U+7B2C", "U+4E00", "U+884C", "U+4E66">> (* 书圣，行书代表作《兰亭序》被誉为天下第一行书 *)],
    [key |-> <<"U+989C", "U+771F", "U+537F">> (* 颜真卿 *), dynasty |-> <<"U+5510", "U+4EE3">> (* 唐代 *), style |-> <<"U+6977", "U+4E66">> (* 楷书 *),
     works |-> <<<<"U+796D", "U+4F84", "U+6587", "U+7A3F">> (* 祭侄文稿 *), <<"U+591A", "U+5B9D", "U+5854", "U+7891">> (* 多宝塔碑 *)>>,
     description |-> <<"U+6977", "U+4E66", "U+56DB", "U+5927", "U+5BB6", "U+4E4B", "U+4E00", "U+FF0C", "U+521B", "U+7ACB", "U+989C", "U+4F53">> (* 楷书四大家之一，创立颜体 *)],
    [key |-> <<"U+82CF", "U+8F7C">> (* 苏轼 *), dynasty |-> <<"U+5B8B", "U+4EE3">> (* 宋代 *), style |-> <<"U+884C", "U+4E66">> (* 行书 *),
     works |-> <<<<"U+9EC4", "U+5DDE", "U+5BD2", "U+98DF", "U+8BD7", "U+5E16">> (* 黄州寒食诗帖 *)>>,
     description |-> <<"U+5B8B", "U+4EE3", "U+4E66", "U+6CD5", "U+56DB", "U+5927", "U+5BB6", "U+4E4B", "U+4E00", "U+FF0C", "U+5C1A", "U+610F", "U+4E66", "U+98CE", "U+4EE3", "U+8868">> (* 宋代书法四大家之一，尚意书风代表 *)],
    [key |-> <<"U+67F3", "U+516C", "U+6743">> (* 柳公权 *), dynasty |-> <<"U+5510", "U+4EE3">> (* 唐代 *), style |-> <<"U+6977", "U+4E66">> (* 楷书 *),
     works |-> <<<<"U+7384", "U+79D8", "U+5854", "U+7891">> (* 玄秘塔碑 *), <<"U+795E", "U+7B56", "U+519B", "U+7891">> (* 神策军碑 *)>>,
     description |-> <<"U+6977", "U+4E66", "U+56DB", "U+5927", "U+5BB6", "U+4E4B", "U+4E00", "U+FF0C", "U+521B", "U+7ACB", "U+67F3", "U+4F53">> (* 楷书四大家之一，创立柳体 *)],
    [key |-> <<"U+5F20", "U+65ED">> (* 张旭 *), dynasty |-> <<"U+5510", "U+4EE3">> (* 唐代 *), style |-> <<"U+8349", "U+4E66">> (* 草书 *),
     works |-> <<<<"U+53E4", "U+8BD7", "U+56DB", "U+5E16">> (* 古诗四帖 *)>>,
     description |-> <<"U+8349", "U+5723", "U+FF0C", "U+72C2", "U+8349", "U+4E66", "U+6CD5", "U+4EE3", "U+8868", "U+4EBA", "U+7269">> (* 草圣，狂草书法代表人物 *)],
    [key |-> <<"U+6B27", "U+9633", "U+8BE2">> (* 欧阳询 *), dynasty |-> <<"U+5510", "U+4EE3">> (* 唐代 *), style |-> <<"U+6977", "U+4E66">> (* 楷书 *),
     works |-> <<<<"U+4E5D", "U+6210", "U+5BAB", "U+91B4", "U+6CC9", "U+94ED">> (* 九成宫醴泉铭 *)>>,
     description |-> <<"U+6977", "U+4E66", "U+56DB", "U+5927", "U+5BB6", "U+65CF", "U+4E4B", "U+4E00", "U+FF0C", "U+6B27", "U+4F53", "U+521B", "U+59CB", "U+4EBA">> (* 楷书四大家族之一，欧体创始人 *)] >>

\* self.styles
StylesInit == <<
    [key |-> <<"U+884C", "U+4E66">> (* 行书 *),
     description |-> <<"U+7B14", "U+52BF", "U+6D41", "U+7545", "U+3001", "U+52A8", "U+9759", "U+76F8", "U+5B9C", "U+FF0C", "U+4ECB", "U+4E8E", "U+6977", "U+4E66", "U+548C", "U+8349", "U+4E66", "U+4E4B", "U+95F4">> (* 笔势流畅、动静相宜，介于楷书和草书之间 *),
     masters |-> <<<<"U+738B", "U+7FB2", "U+4E4B">> (* 王羲之 *), <<"U+82CF", "U+8F7C">> (* 苏轼 *), <<"U+989C", "U+771F", "U+537F">> (* 颜真卿 *)>>,
     features |-> <<<<"U+7528", "U+7B14", "U+7075", "U+6D3B">> (* 用笔灵活 *), <<"U+7ED3", "U+6784", "U+81EA", "U+5982">> (* 结构自如 *), <<"U+4E66", "U+5199", "U+4FBF", "U+6377">> (* 书写便捷 *)>>],
    [key |-> <<"U+6977", "U+4E66">> (* 楷书 *),
     description |-> <<"U+7ED3", "U+6784", "U+4E25", "U+8C28", "U+3001", "U+7B14", "U+753B", "U+7AEF", "U+6B63", "U+FF0C", "U+6CD5", "U+5EA6", "U+68EE", "U+4E25">> (* 结构严谨、笔画端正，法度森严 *),
     masters |-> <<<<"U+989C", "U+771F", "U+537F">> (* 颜真卿 *), <<"U+67F3", "U+516C", "U+6743">> (* 柳公权 *), <<"U+6B27", "U+9633", "U+8BE2">> (* 欧阳询 *)>>,
     features |-> <<<<"U+6A2A", "U+5E73", "U+7AD6", "U+76F4">> (* 横平竖直 *), <<"U+7ED3", "U+6784", "U+65B9", "U+6B63">> (* 结构方正 *), <<"U+7B14", "U+529B", "U+52B2", "U+5065">> (* 笔力劲健 *)>>],
    [key |-> <<"U+8349", "U+4E66">> (* 草书 *),
     description |-> <<"U+7EB5", "U+4EFB", "U+5954", "U+9038", "U+3001", "U+8D74", "U+901F", "U+6025", "U+5C31", "U+FF0C", "U+827A", "U+672F", "U+6027", "U+6781", "U+5F3A">> (* 纵任奔逸、赴速急就，艺术性极强 *),
     masters |-> <<<<"U+5F20", "U+65ED">> (* 张旭 *), <<"U+6000", "U+7D20">> (* 怀素 *), <<"U+738B", "U+732E", "U+4E4B">> (* 王献之 *)>>,
     features |-> <<<<"U+7B14", "U+52BF", "U+8FDE", "U+7EF5">> (* 笔势连绵 *), <<"U+6C14", "U+52BF", "U+8D2F", "U+901A">> (* 气势贯通 *), <<"U+53D8", "U+5316", "U+591A", "U+7AEF">> (* 变化多端 *)>>],
    [key |-> <<"U+96B6", "U+4E66">> (* 隶书 *),
     description |-> <<"U+5B57", "U+5F62", "U+6241", "U+5E73", "U+3001", "U+7B14", "U+753B", "U+6CE2", "U+78D4", "U+FF0C", "U+53E4", "U+6734", "U+5178", "U+96C5">> (* 字形扁平、笔画波磔，古朴典雅 *),
     masters |-> <<<<"U+8521", "U+9095">> (* 蔡邕 *), <<"U+949F", "U+7E47">> (* 钟繇 *), <<"U+9093", "U+77F3", "U+5982">> (* 邓石如 *)>>,
     features |-> <<<<"U+8695", "U+5934", "U+96C1", "U+5C3E">> (* 蚕头雁尾 *), <<"U+4E00", "U+6CE2", "U+4E09", "U+6298">> (* 一波三折 *), <<"U+7ED3", "U+6784", "U+4E25", "U+8C28">> (* 结构严谨 *)>>] >>

\* key in table
HasKey(table, k) == \E i \in 1..Len(table) : table[i].key = k

\* table[key], for a key the table has
Entry(table, k) == table[CHOOSE i \in 1..Len(table) : table[i].key = k]

\* x in list
InList(x, list) == \E i \in 1..Len(list) : list[i] = x

\* ----------------------------------------------------------------- lexer

\* t_ignore: characters token() steps over before it tries any rule.
t_ignore == {" ", "\t", "\r", "\n", "U+7684" (* 的 *)}

\* The surface forms of each keyword rule, in the order of its pattern: a
\* pattern a|b|c takes the first alternative that matches, not the longest.
t_CALLIGRAPHER == <<<<"U+4E66", "U+6CD5", "U+5BB6">> (* 书法家 *), <<"U+4E66", "U+5BB6">> (* 书家 *), <<"U+4E66", "U+6CD5", "U+5927", "U+5E08">> (* 书法大师 *), <<"U+4E66", "U+6CD5", "U+540D", "U+5BB6">> (* 书法名家 *)>>

t_WORK == <<<<"U+4F5C", "U+54C1">> (* 作品 *), <<"U+4E66", "U+6CD5", "U+4F5C", "U+54C1">> (* 书法作品 *), <<"U+8457", "U+540D", "U+4F5C", "U+54C1">> (* 著名作品 *), <<"U+58A8", "U+5B9D">> (* 墨宝 *), <<"U+4EE3", "U+8868", "U+4F5C">> (* 代表作 *)>>

t_STYLE == <<<<"U+98CE", "U+683C">> (* 风格 *), <<"U+4E66", "U+4F53">> (* 书体 *), <<"U+5B57", "U+4F53">> (* 字体 *), <<"U+4E66", "U+6CD5", "U+98CE", "U+683C">> (* 书法风格 *), <<"U+4E66", "U+98CE">> (* 书风 *)>>

t_DYNASTY == <<<<"U+5510", "U+4EE3">> (* 唐代 *), <<"U+5B8B", "U+4EE3">> (* 宋代 *), <<"U+664B", "U+4EE3">> (* 晋代 *), <<"U+660E", "U+4EE3">> (* 明代 *), <<"U+6E05", "U+4EE3">> (* 清代 *), <<"U+5510", "U+671D">> (* 唐朝 *),
               <<"U+5B8B", "U+671D">> (* 宋朝 *), <<"U+664B", "U+671D">> (* 晋朝 *), <<"U+660E", "U+671D">> (* 明朝 *), <<"U+6E05", "U+671D">> (* 清朝 *), <<"U+4E1C", "U+664B">> (* 东晋 *)>>

t_INFO == <<<<"U+4FE1", "U+606F">> (* 信息 *)>>

t_FIND == <<<<"U+67E5", "U+8BE2">> (* 查询 *), <<"U+67E5", "U+627E">> (* 查找 *), <<"U+641C", "U+7D22">> (* 搜索 *), <<"U+627E">> (* 找 *), <<"U+8BF7", "U+95EE">> (* 请问 *), <<"U+6211", "U+60F3", "U+77E5", "U+9053">> (* 我想知道 *),
            <<"U+4E86", "U+89E3">> (* 了解 *), <<"U+663E", "U+793A">> (* 显示 *), <<"U+5C55", "U+793A">> (* 展示 *)>>

\* The character class of t_CHINESE_NAME.
t_CHINESE_NAME ==
    Range(<<"U+738B", "U+7FB2", "U+4E4B", "U+989C", "U+771F", "U+537F", "U+82CF", "U+8F7C", "U+67F3", "U+516C", "U+6743", "U+5F20", "U+65ED", "U+6B27", "U+9633", "U+8BE2", "U+5170", "U+4EAD", "U+5E8F", "U+9EC4", "U+5EAD", "U+7ECF", "U+796D", "U+4F84", "U+6587", "U+7A3F", "U+591A", "U+5B9D", "U+5854", "U+7891", "U+9EC4", "U+5DDE", "U+5BD2", "U+98DF", "U+8BD7", "U+5E16", "U+7384", "U+79D8", "U+5854", "U+7891", "U+795E", "U+7B56", "U+519B", "U+7891", "U+53E4", "U+8BD7", "U+56DB", "U+5E16", "U+4E5D", "U+6210", "U+5BAB", "U+91B4", "U+6CC9", "U+94ED", "U+884C", "U+4E66", "U+6977", "U+4E66", "U+8349", "U+4E66", "U+96B6", "U+4E66">> (* 王羲之颜真卿苏轼柳公权张旭欧阳询兰亭序黄庭经祭侄文稿多宝塔碑黄州寒食诗帖玄秘塔碑神策军碑古诗四帖九成宫醴泉铭行书楷书草书隶书 *))

\* t_DYNASTY without its map: the value as written.
dynasty_map_none(v) == v

\* dynasty_map.get(t.value, t.value) in t_DYNASTY
dynasty_map(v) ==
    CASE v = <<"U+5510", "U+671D">> (* 唐朝 *) -> <<"U+5510", "U+4EE3">> (* 唐代 *)
      [] v = <<"U+5B8B", "U+671D">> (* 宋朝 *) -> <<"U+5B8B", "U+4EE3">> (* 宋代 *)
      [] v = <<"U+664B", "U+671D">> (* 晋朝 *) -> <<"U+664B", "U+4EE3">> (* 晋代 *)
      [] v = <<"U+660E", "U+671D">> (* 明朝 *) -> <<"U+660E", "U+4EE3">> (* 明代 *)
      [] v = <<"U+6E05", "U+671D">> (* 清朝 *) -> <<"U+6E05", "U+4EE3">> (* 清代 *)
      [] OTHER -> v

\* The keyword rules in the order lex puts them into its master pattern:
\* rules given as functions go in by line number, and t_CHINESE_NAME and
\* t_newline come after all of them.
KeywordRules == <<
    [type |-> "CALLIGRAPHER", forms |-> t_CALLIGRAPHER],
    [type |-> "WORK", forms |-> t_WORK],
    [type |-> "STYLE", forms |-> t_STYLE],
    [type |-> "DYNASTY", forms |-> t_DYNASTY],
    [type |-> "INFO", forms |-> t_INFO],
    [type |-> "FIND", forms |-> t_FIND] >>

RECURSIVE FormsInOrder(_)
\* Every (type, form) of the given rules, in matching order.
FormsInOrder(rules) ==
    IF Len(rules) = 0 THEN <<>>
    ELSE [i \in 1..Len(rules[1].forms) |->
             [type |-> rules[1].type, form |-> rules[1].forms[i]]]
         \o FormsInOrder(Tail(rules))

MasterForms == FormsInOrder(KeywordRules)

\* The class without its +: one character.
NameRunEnd_one(data, pos) == pos + 1

RECURSIVE NameRunEnd(_, _)
\* [...]+ is greedy: the end of the longest run of class characters from pos.
NameRunEnd(data, pos) ==
    IF pos < Len(data) /\ data[pos + 1] \in t_CHINESE_NAME
    THEN NameRunEnd(data, pos + 1)
    ELSE pos

\* value.strip() is empty
IsBlank(value) == \A i \in 1..Len(value) : value[i] \in {" ", "\t", "\r", "\n"}

RECURSIVE NewlineRunEnd(_, _)
NewlineRunEnd(data, pos) ==
    IF pos < Len(data) /\ data[pos + 1] = "\n"
    THEN NewlineRunEnd(data, pos + 1)
    ELSE pos

NoToken == [type |-> "None", value |-> <<>>, lineno |-> 0, lexpos |-> 0]

FirstHit(forms, hits) == forms[CHOOSE i \in hits : \A j \in hits : i <= j]

\* The keyword form the master pattern takes among those that match.
KeywordMatch(pos, hits) ==
    [rule |-> FirstHit(MasterForms, hits).type,
     end |-> pos + Len(FirstHit(MasterForms, hits).form)]

HitsAt(forms, data, pos) == {i \in 1..Len(forms) : StartsAt(data, pos, forms[i].form)}

\* lexre.match(lexdata, lexpos): the rule that matches at pos and where the
\* match ends; rule "" when none matches.
MasterMatchOf(data, pos, hits) ==
    IF hits # {} THEN KeywordMatch(pos, hits)
    ELSE IF data[pos + 1] \in t_CHINESE_NAME
    THEN [rule |-> "CHINESE_NAME", end |-> NameRunEnd(data, pos)]
    ELSE IF data[pos + 1] = "\n"
    THEN [rule |-> "newline", end |-> NewlineRunEnd(data, pos)]
    ELSE [rule |-> "", end |-> pos]

MasterMatch(data, pos) == MasterMatchOf(data, pos, HitsAt(MasterForms, data, pos))

\* The rules with a t_error that does not skip: the position stays.
AfterMatch_noskip(pos, line, m, matched) ==
    CASE m.rule = "" ->
           [kind |-> "skip", pos |-> pos, lineno |-> line, tok |-> NoToken]
      [] m.rule = "newline" ->
           \* t_newline: counts lines, returns nothing
           [kind |-> "none", pos |-> m.end, lineno |-> line + Len(matched),
            tok |-> NoToken]
      [] m.rule = "CHINESE_NAME" /\ IsBlank(matched) ->
           [kind |-> "none", pos |-> m.end, lineno |-> line, tok |-> NoToken]
      [] m.rule = "DYNASTY" ->
           [kind |-> "token", pos |-> m.end, lineno |-> line,
            tok |-> [type |-> "DYNASTY", value |-> dynasty_map(matched),
                     lineno |-> line, lexpos |-> pos]]
      [] OTHER ->
           [kind |-> "token", pos |-> m.end, lineno |-> line,
            tok |-> [type |-> m.rule, value |-> matched,
                     lineno |-> line, lexpos |-> pos]]

\* What the loop of token() does with a match m of the text matched.
AfterMatch(pos, line, m, matched) ==
    CASE m.rule = "" ->
           \* t_error: t.lexer.skip(1)
           [kind |-> "skip", pos |-> pos + 1, lineno |-> line, tok |-> NoToken]
      [] m.rule = "newline" ->
           \* t_newline: counts lines, returns nothing
           [kind |-> "none", pos |-> m.end, lineno |-> line + Len(matched),
            tok |-> NoToken]
      [] m.rule = "CHINESE_NAME" /\ IsBlank(matched) ->
           [kind |-> "none", pos |-> m.end, lineno |-> line, tok |-> NoToken]
      [] m.rule = "DYNASTY" ->
           [kind |-> "token", pos |-> m.end, lineno |-> line,
            tok |-> [type |-> "DYNASTY", value |-> dynasty_map(matched),
                     lineno |-> line, lexpos |-> pos]]
      [] OTHER ->
           [kind |-> "token", pos |-> m.end, lineno |-> line,
            tok |-> [type |-> m.rule, value |-> matched,
                     lineno |-> line, lexpos |-> pos]]

\* One pass of the loop `while lexpos < lexlen` of token(), at pos < Len(data):
\* an ignored character, a token, a rule that returns nothing, or t_error
\* skipping one character.  kind says which; tok is the token returned.
ScanWith(data, pos, line, m) == AfterMatch(pos, line, m, SubSeq(data, pos + 1, m.end))

ScanStep(data, pos, line) ==
    IF data[pos + 1] \in t_ignore
    THEN [kind |-> "ignore", pos |-> pos + 1, lineno |-> line, tok |-> NoToken]
    ELSE ScanWith(data, pos, line, MasterMatch(data, pos))

RECURSIVE token(_, _, _)
TokenOrOn(data, s) ==
    IF s.kind = "token"
    THEN [tok |-> s.tok, lexpos |-> s.pos, lineno |-> s.lineno]
    ELSE token(data, s.pos, s.lineno)

\* lexer.token() from lexpos: the next token, or NoToken at the end of the
\* data, with the lexer's lexpos and lineno after the call.  At the end of
\* the data the code leaves lexpos one past where the scan stopped.
token(data, pos, line) ==
    IF pos < Len(data)
    THEN TokenOrOn(data, ScanStep(data, pos, line))
    ELSE [tok |-> NoToken, lexpos |-> pos + 1, lineno |-> line]

\* --------------------------------------------------------------- grammar

\* self.tokens
tokens == {"FIND", "CALLIGRAPHER", "WORK", "STYLE", "DYNASTY", "INFO", "CHINESE_NAME"}

\* The productions yacc reads from the docstrings of the p_ functions, in
\* line order, after the augmented start production S' -> query that it
\* puts first (p_query is the first rule, so query is the start symbol).
Productions == <<
    [name |-> "S'", rhs |-> <<"query">>],
    [name |-> "query", rhs |-> <<"find_calligrapher_detail">>],
    [name |-> "query", rhs |-> <<"find_work_representative">>],
    [name |-> "query", rhs |-> <<"find_style">>],
    [name |-> "query", rhs |-> <<"find_dynasty_calligraphers">>],
    [name |-> "query", rhs |-> <<"find_calligrapher_info">>],
    [name |-> "query", rhs |-> <<"find_direct">>],
    [name |-> "query", rhs |-> <<"find_calligrapher_style">>],
    [name |-> "find_calligrapher_detail", rhs |-> <<"FIND", "CALLIGRAPHER", "CHINESE_NAME">>],
    [name |-> "find_work_representative", rhs |-> <<"FIND", "CHINESE_NAME", "WORK">>],
    [name |-> "find_direct", rhs |-> <<"FIND", "CHINESE_NAME">>],
    [name |-> "find_style", rhs |-> <<"FIND", "STYLE", "CHINESE_NAME">>],
    [name |-> "find_calligrapher_style", rhs |-> <<"FIND", "CHINESE_NAME", "STYLE">>],
    [name |-> "find_dynasty_calligraphers", rhs |-> <<"FIND", "DYNASTY", "CALLIGRAPHER">>],
    [name |-> "find_calligrapher_info", rhs |-> <<"FIND", "CHINESE_NAME", "INFO">>] >>

Nonterminals == {Productions[k].name : k \in 1..Len(Productions)}

\* What a lookahead can be: a token, the end of the input, or the error
\* symbol the parser makes while it recovers.
Terminals == tokens \cup {"$end", "error"}

\* The tables yacc.yacc builds for this grammar (self.parser).  An item
\* <<k, d>> is production k with d symbols of its right side recognised; a
\* state is a closed set of items.
RECURSIVE Closure(_)
Closure(items) ==
    LET wanted == {Productions[it[1]].rhs[it[2] + 1] :
                      it \in {i \in items : i[2] < Len(Productions[i[1]].rhs)}}
        more == {<<k, 0>> : k \in {j \in 1..Len(Productions) : Productions[j].name \in wanted}}
    IN  IF more \subseteq items THEN items ELSE Closure(items \cup more)

Goto(items, sym) ==
    Closure({<<it[1], it[2] + 1>> :
                it \in {i \in items : /\ i[2] < Len(Productions[i[1]].rhs)
                                      /\ Productions[i[1]].rhs[i[2] + 1] = sym}})

StartItems == Closure({<<1, 0>>})

RECURSIVE ReachableFrom(_)
ReachableFrom(sets) ==
    LET next == sets \cup ({Goto(s, x) : s \in sets, x \in tokens \cup Nonterminals} \ {{}})
    IN  IF next = sets THEN sets ELSE ReachableFrom(next)

RECURSIVE InSomeOrder(_)
InSomeOrder(sets) ==
    IF sets = {} THEN <<>>
    ELSE LET s == CHOOSE s \in sets : TRUE IN <<s>> \o InSomeOrder(sets \ {s})

StartFirst(start) == <<start>> \o InSomeOrder(ReachableFrom({start}) \ {start})

\* The states, numbered from 0 as yacc numbers them; state n is
\* StateItems[n + 1], and the start state is state 0.
StateItems == StartFirst(StartItems)

States == 0..(Len(StateItems) - 1)

IndexIn(seq, x) == CHOOSE i \in 1..Len(seq) : seq[i] = x

RECURSIVE First(_)
\* The tokens a symbol can begin with (no production of the grammar is empty).
First(sym) ==
    IF sym \notin Nonterminals THEN {sym}
    ELSE UNION {First(Productions[k].rhs[1]) :
                   k \in {j \in 1..Len(Productions) : Productions[j].name = sym}}

RECURSIVE Follow(_)
\* The lookaheads on which a production of nonterminal nt is reduced.  Every
\* nonterminal of this grammar stands only at the start of the sentence's
\* derivation, so the LALR lookahead sets yacc computes are these.
Follow(nt) ==
    IF nt = "S'" THEN {"$end"}
    ELSE UNION {IF occ[2] < Len(Productions[occ[1]].rhs)
                THEN First(Productions[occ[1]].rhs[occ[2] + 1])
                ELSE Follow(Productions[occ[1]].name) :
                   occ \in {o \in (1..Len(Productions)) \X (1..3) :
                               /\ o[2] <= Len(Productions[o[1]].rhs)
                               /\ Productions[o[1]].rhs[o[2]] = nt}}

NoAction == [op |-> "none", prod |-> 0, to |-> 0]

\* Reductions that do not look at the lookahead.
CompleteIn_any(items, ltype) ==
    {k \in 1..Len(Productions) : <<k, Len(Productions[k].rhs)>> \in items}

\* The productions complete in a state that the lookahead lets reduce.
CompleteIn(items, ltype) ==
    {k \in 1..Len(Productions) :
        /\ <<k, Len(Productions[k].rhs)>> \in items
        /\ ltype \in Follow(Productions[k].name)}

Least(S) == CHOOSE k \in S : \A j \in S : k <= j

\* One entry of the action table: shift to the state of the items reached,
\* else reduce the complete production (accept, for production S' -> query),
\* else nothing.
ActionEntry(all, shifted, complete) ==
    IF shifted # {} THEN [op |-> "shift", prod |-> 0, to |-> IndexIn(all, shifted) - 1]
    ELSE IF complete = {} THEN NoAction
    ELSE IF 1 \in complete THEN [op |-> "accept", prod |-> 1, to |-> 0]
    ELSE [op |-> "reduce", prod |-> Least(complete), to |-> 0]

ActionTable(all) ==
    [n \in 0..(Len(all) - 1) |-> [ltype \in Terminals |->
        ActionEntry(all,
                    IF ltype \in tokens THEN Goto(all[n + 1], ltype) ELSE {},
                    CompleteIn(all[n + 1], ltype))]]

\* lr_action[state].get(ltype): shift to a state, reduce a production,
\* accept, or nothing (None), which is a syntax error.
lr_action == ActionTable(StateItems)

GotoEntry(all, reached) == IF reached = {} THEN -1 ELSE IndexIn(all, reached) - 1

GotoTable(all) ==
    [n \in 0..(Len(all) - 1) |-> [nt \in Nonterminals |-> GotoEntry(all, Goto(all[n + 1], nt))]]

\* lr_goto[state][nonterminal]; -1 where the table has no entry.
lr_goto == GotoTable(StateItems)

\* The actions of a table row.
RowActions(row) == {row[a] : a \in Terminals} \ {NoAction}

OnlyReduces(acts) == Cardinality(acts) = 1 /\ \A x \in acts : x.op = "reduce"

DefaultedIn(table) == {n \in DOMAIN table : OnlyReduces(RowActions(table[n]))}

\* set_defaulted_states: a state whose only action is one reduction is
\* reduced without looking at the next token.
defaulted_states == DefaultedIn(lr_action)

\* error_count in yacc: the shifts after a syntax error before the next one
\* is reported again.
error_count == 3

\* ------------------------------------------------------------- resolvers
\* The bodies of the seven grammar rules: each takes the values of the
\* rule's tokens and the tables, and gives p[0].

\* p_find_calligrapher_detail, the second branch of p_find_direct and
\* p_find_calligrapher_info write the same text out three times in the
\* code; each rule below keeps its own copy.

\* Rule 1: FIND CALLIGRAPHER CHINESE_NAME
p_find_calligrapher_detail(calligraphers, name) ==
    IF HasKey(calligraphers, name)
    THEN LET info == Entry(calligraphers, name)
         IN  <<"U+1F4D6", " ">> (* 📖  *) \o name \o <<"U+4E66", "U+6CD5", "U+5BB6", "U+4FE1", "U+606F", "U+FF1A", "\n">> (* 书法家信息：\n *)
             \o <<" ", " ", " ", "U+671D", "U+4EE3", "U+FF1A">> (*    朝代： *) \o info.dynasty \o <<"\n">>
             \o <<" ", " ", " ", "U+64C5", "U+957F", "U+4E66", "U+4F53", "U+FF1A">> (*    擅长书体： *) \o info.style \o <<"\n">>
             \o <<" ", " ", " ", "U+4EE3", "U+8868", "U+4F5C", "U+54C1", "U+FF1A">> (*    代表作品： *) \o Join(<<"U+3001">> (* 、 *), info.works) \o <<"\n">>
             \o <<" ", " ", " ", "U+7B80", "U+4ECB", "U+FF1A">> (*    简介： *) \o info.description
    ELSE <<"U+274C", " ", "U+672A", "U+627E", "U+5230", "U+4E66", "U+6CD5", "U+5BB6", "'">> (* ❌ 未找到书法家' *) \o name \o <<"'", "U+7684", "U+4FE1", "U+606F">> (* '的信息 *)

\* Rule 2: FIND CHINESE_NAME WORK
p_find_work_representative(calligraphers, calligrapher) ==
    IF HasKey(calligraphers, calligrapher)
    THEN LET works == Entry(calligraphers, calligrapher).works
             style == Entry(calligraphers, calligrapher).style
         IN  <<"U+1F3A8", " ">> (* 🎨  *) \o calligrapher \o <<"U+7684", "U+4EE3", "U+8868", "U+4F5C", "U+54C1", "U+FF08">> (* 的代表作品（ *) \o style \o <<"U+FF09", "U+FF1A", "\n">> (* ）：\n *)
             \o <<" ", " ", " ">> \o Join(<<"U+3001">> (* 、 *), works)
    ELSE <<"U+274C", " ", "U+672A", "U+627E", "U+5230">> (* ❌ 未找到 *) \o calligrapher \o <<"U+7684", "U+4F5C", "U+54C1", "U+8BB0", "U+5F55">> (* 的作品记录 *)

\* Rule 3 with its two lookups the other way round: the calligraphers'
\* names first, the works after.
p_find_direct_keyfirst(calligraphers, work_name) ==
    LET owners == {i \in 1..Len(calligraphers) : InList(work_name, calligraphers[i].works)}
    IN  IF HasKey(calligraphers, work_name)
        THEN LET info == Entry(calligraphers, work_name)
             IN  <<"U+1F4D6", " ">> (* 📖  *) \o work_name \o <<"U+4E66", "U+6CD5", "U+5BB6", "U+4FE1", "U+606F", "U+FF1A", "\n">> (* 书法家信息：\n *)
                 \o <<" ", " ", " ", "U+671D", "U+4EE3", "U+FF1A">> (*    朝代： *) \o info.dynasty \o <<"\n">>
                 \o <<" ", " ", " ", "U+64C5", "U+957F", "U+4E66", "U+4F53", "U+FF1A">> (*    擅长书体： *) \o info.style \o <<"\n">>
                 \o <<" ", " ", " ", "U+4EE3", "U+8868", "U+4F5C", "U+54C1", "U+FF1A">> (*    代表作品： *) \o Join(<<"U+3001">> (* 、 *), info.works) \o <<"\n">>
                 \o <<" ", " ", " ", "U+7B80", "U+4ECB", "U+FF1A">> (*    简介： *) \o info.description
        ELSE IF owners # {}
        THEN LET info == calligraphers[CHOOSE i \in owners : \A j \in owners : i <= j]
             IN  <<"U+1F4DC", " ">> (* 📜  *) \o work_name \o <<"U+662F">> (* 是 *) \o info.key \o <<"U+7684", "U+4EE3", "U+8868", "U+4F5C", "\n">> (* 的代表作\n *)
                 \o <<" ", " ", " ", "U+4E66", "U+4F53", "U+FF1A">> (*    书体： *) \o info.style \o <<"\n">>
                 \o <<" ", " ", " ", "U+671D", "U+4EE3", "U+FF1A">> (*    朝代： *) \o info.dynasty \o <<"\n">>
                 \o <<" ", " ", " ", "U+4E66", "U+6CD5", "U+5BB6", "U+7B80", "U+4ECB", "U+FF1A">> (*    书法家简介： *) \o info.description
        ELSE <<"U+274C", " ", "U+672A", "U+627E", "U+5230", "'">> (* ❌ 未找到' *) \o work_name \o <<"'", "U+7684", "U+76F8", "U+5173", "U+4FE1", "U+606F">> (* '的相关信息 *)

\* Rule 3: FIND CHINESE_NAME.  The loop over calligraphers.items() stops at
\* the first calligrapher, in table order, whose works hold the name.
p_find_direct(calligraphers, work_name) ==
    LET owners == {i \in 1..Len(calligraphers) : InList(work_name, calligraphers[i].works)}
    IN  IF owners # {}
        THEN LET info == calligraphers[CHOOSE i \in owners : \A j \in owners : i <= j]
             IN  <<"U+1F4DC", " ">> (* 📜  *) \o work_name \o <<"U+662F">> (* 是 *) \o info.key \o <<"U+7684", "U+4EE3", "U+8868", "U+4F5C", "\n">> (* 的代表作\n *)
                 \o <<" ", " ", " ", "U+4E66", "U+4F53", "U+FF1A">> (*    书体： *) \o info.style \o <<"\n">>
                 \o <<" ", " ", " ", "U+671D", "U+4EE3", "U+FF1A">> (*    朝代： *) \o info.dynasty \o <<"\n">>
                 \o <<" ", " ", " ", "U+4E66", "U+6CD5", "U+5BB6", "U+7B80", "U+4ECB", "U+FF1A">> (*    书法家简介： *) \o info.description
        ELSE IF HasKey(calligraphers, work_name)
        THEN LET info == Entry(calligraphers, work_name)
             IN  <<"U+1F4D6", " ">> (* 📖  *) \o work_name \o <<"U+4E66", "U+6CD5", "U+5BB6", "U+4FE1", "U+606F", "U+FF1A", "\n">> (* 书法家信息：\n *)
                 \o <<" ", " ", " ", "U+671D", "U+4EE3", "U+FF1A">> (*    朝代： *) \o info.dynasty \o <<"\n">>
                 \o <<" ", " ", " ", "U+64C5", "U+957F", "U+4E66", "U+4F53", "U+FF1A">> (*    擅长书体： *) \o info.style \o <<"\n">>
                 \o <<" ", " ", " ", "U+4EE3", "U+8868", "U+4F5C", "U+54C1", "U+FF1A">> (*    代表作品： *) \o Join(<<"U+3001">> (* 、 *), info.works) \o <<"\n">>
                 \o <<" ", " ", " ", "U+7B80", "U+4ECB", "U+FF1A">> (*    简介： *) \o info.description
        ELSE <<"U+274C", " ", "U+672A", "U+627E", "U+5230", "'">> (* ❌ 未找到' *) \o work_name \o <<"'", "U+7684", "U+76F8", "U+5173", "U+4FE1", "U+606F">> (* '的相关信息 *)

\* Rule 4 without its else branch: p[0] stays None for an unknown style.
p_find_style_none(styles, style) ==
    IF HasKey(styles, style)
    THEN LET info == Entry(styles, style)
         IN  <<"U+1F58B", "U+FE0F", " ">> (* 🖋  *) \o style \o <<"U+4E66", "U+4F53", "U+4FE1", "U+606F", "U+FF1A", "\n">> (* 书体信息：\n *)
             \o <<" ", " ", " ", "U+7279", "U+70B9", "U+FF1A">> (*    特点： *) \o info.description \o <<"\n">>
             \o <<" ", " ", " ", "U+4EE3", "U+8868", "U+4E66", "U+5BB6", "U+FF1A">> (*    代表书家： *) \o Join(<<"U+3001">> (* 、 *), info.masters) \o <<"\n">>
             \o <<" ", " ", " ", "U+827A", "U+672F", "U+7279", "U+5F81", "U+FF1A">> (*    艺术特征： *) \o Join(<<"U+3001">> (* 、 *), info.features)
    ELSE <<>>

\* Rule 4: FIND STYLE CHINESE_NAME
p_find_style(styles, style) ==
    IF HasKey(styles, style)
    THEN LET info == Entry(styles, style)
         IN  <<"U+1F58B", "U+FE0F", " ">> (* 🖋  *) \o style \o <<"U+4E66", "U+4F53", "U+4FE1", "U+606F", "U+FF1A", "\n">> (* 书体信息：\n *)
             \o <<" ", " ", " ", "U+7279", "U+70B9", "U+FF1A">> (*    特点： *) \o info.description \o <<"\n">>
             \o <<" ", " ", " ", "U+4EE3", "U+8868", "U+4E66", "U+5BB6", "U+FF1A">> (*    代表书家： *) \o Join(<<"U+3001">> (* 、 *), info.masters) \o <<"\n">>
             \o <<" ", " ", " ", "U+827A", "U+672F", "U+7279", "U+5F81", "U+FF1A">> (*    艺术特征： *) \o Join(<<"U+3001">> (* 、 *), info.features)
    ELSE <<"U+274C", " ", "U+672A", "U+627E", "U+5230">> (* ❌ 未找到 *) \o style \o <<"U+4E66", "U+4F53", "U+7684", "U+8BE6", "U+7EC6", "U+8BF4", "U+660E">> (* 书体的详细说明 *)

\* Rule 5 that never finds the description and always puts the placeholder.
p_find_calligrapher_style_nodesc(calligraphers, styles, calligrapher) ==
    IF HasKey(calligraphers, calligrapher)
    THEN LET style == Entry(calligraphers, calligrapher).style
         IN  <<"U+1F3AF", " ">> (* 🎯  *) \o calligrapher \o <<"U+7684", "U+4E66", "U+6CD5", "U+98CE", "U+683C", "U+FF1A", "\n">> (* 的书法风格：\n *)
             \o <<" ", " ", " ", "U+64C5", "U+957F">> (*    擅长 *) \o style \o <<"U+4E66", "U+4F53", "\n">> (* 书体\n *)
             \o <<" ", " ", " ", "U+98CE", "U+683C", "U+7279", "U+70B9", "U+FF1A">> (*    风格特点： *) \o <<"U+6682", "U+65E0", "U+8BE6", "U+7EC6", "U+63CF", "U+8FF0">> (* 暂无详细描述 *)
    ELSE <<"U+274C", " ", "U+672A", "U+627E", "U+5230">> (* ❌ 未找到 *) \o calligrapher \o <<"U+7684", "U+4E66", "U+6CD5", "U+98CE", "U+683C", "U+4FE1", "U+606F">> (* 的书法风格信息 *)

\* Rule 5: FIND CHINESE_NAME STYLE
p_find_calligrapher_style(calligraphers, styles, calligrapher) ==
    IF HasKey(calligraphers, calligrapher)
    THEN LET style == Entry(calligraphers, calligrapher).style
             style_desc == IF HasKey(styles, style)
                           THEN Entry(styles, style).description
                           ELSE <<"U+6682", "U+65E0", "U+8BE6", "U+7EC6", "U+63CF", "U+8FF0">> (* 暂无详细描述 *)
         IN  <<"U+1F3AF", " ">> (* 🎯  *) \o calligrapher \o <<"U+7684", "U+4E66", "U+6CD5", "U+98CE", "U+683C", "U+FF1A", "\n">> (* 的书法风格：\n *)
             \o <<" ", " ", " ", "U+64C5", "U+957F">> (*    擅长 *) \o style \o <<"U+4E66", "U+4F53", "\n">> (* 书体\n *)
             \o <<" ", " ", " ", "U+98CE", "U+683C", "U+7279", "U+70B9", "U+FF1A">> (*    风格特点： *) \o style_desc
    ELSE <<"U+274C", " ", "U+672A", "U+627E", "U+5230">> (* ❌ 未找到 *) \o calligrapher \o <<"U+7684", "U+4E66", "U+6CD5", "U+98CE", "U+683C", "U+4FE1", "U+606F">> (* 的书法风格信息 *)

\* Rule 6 with every calligrapher annotated with the style of the first.
p_find_dynasty_calligraphers_firststyle(calligraphers, dynasty) ==
    LET artists == SelectSeq(calligraphers, LAMBDA e : e.dynasty = dynasty)
    IN  IF Len(artists) > 0
        THEN LET artist_info == [i \in 1..Len(artists) |->
                                    artists[i].key \o <<"U+FF08">> (* （ *) \o artists[1].style \o <<"U+FF09">> (* ） *)]
             IN  <<"U+1F3DB", "U+FE0F", " ">> (* 🏛  *) \o dynasty \o <<"U+8457", "U+540D", "U+4E66", "U+6CD5", "U+5BB6", "U+FF1A", "\n">> (* 著名书法家：\n *)
                 \o <<" ", " ", " ">> \o Join(<<"U+3001">> (* 、 *), artist_info)
        ELSE <<"U+274C", " ", "U+672A", "U+627E", "U+5230">> (* ❌ 未找到 *) \o dynasty \o <<"U+7684", "U+4E66", "U+6CD5", "U+5BB6", "U+8BB0", "U+5F55">> (* 的书法家记录 *)

\* Rule 6: FIND DYNASTY CALLIGRAPHER
p_find_dynasty_calligraphers(calligraphers, dynasty) ==
    LET artists == SelectSeq(calligraphers, LAMBDA e : e.dynasty = dynasty)
    IN  IF Len(artists) > 0
        THEN LET artist_info == [i \in 1..Len(artists) |->
                                    artists[i].key \o <<"U+FF08">> (* （ *) \o artists[i].style \o <<"U+FF09">> (* ） *)]
             IN  <<"U+1F3DB", "U+FE0F", " ">> (* 🏛  *) \o dynasty \o <<"U+8457", "U+540D", "U+4E66", "U+6CD5", "U+5BB6", "U+FF1A", "\n">> (* 著名书法家：\n *)
                 \o <<" ", " ", " ">> \o Join(<<"U+3001">> (* 、 *), artist_info)
        ELSE <<"U+274C", " ", "U+672A", "U+627E", "U+5230">> (* ❌ 未找到 *) \o dynasty \o <<"U+7684", "U+4E66", "U+6CD5", "U+5BB6", "U+8BB0", "U+5F55">> (* 的书法家记录 *)

\* Rule 7 with the last line of its text left out.
p_find_calligrapher_info_short(calligraphers, name) ==
    IF HasKey(calligraphers, name)
    THEN LET info == Entry(calligraphers, name)
         IN  <<"U+1F4D6", " ">> (* 📖  *) \o name \o <<"U+4E66", "U+6CD5", "U+5BB6", "U+4FE1", "U+606F", "U+FF1A", "\n">> (* 书法家信息：\n *)
             \o <<" ", " ", " ", "U+671D", "U+4EE3", "U+FF1A">> (*    朝代： *) \o info.dynasty \o <<"\n">>
             \o <<" ", " ", " ", "U+64C5", "U+957F", "U+4E66", "U+4F53", "U+FF1A">> (*    擅长书体： *) \o info.style \o <<"\n">>
             \o <<" ", " ", " ", "U+4EE3", "U+8868", "U+4F5C", "U+54C1", "U+FF1A">> (*    代表作品： *) \o Join(<<"U+3001">> (* 、 *), info.works)
    ELSE <<"U+274C", " ", "U+672A", "U+627E", "U+5230", "U+4E66", "U+6CD5", "U+5BB6", "'">> (* ❌ 未找到书法家' *) \o name \o <<"'", "U+7684", "U+4FE1", "U+606F">> (* '的信息 *)

\* Rule 7: FIND CHINESE_NAME INFO
p_find_calligrapher_info(calligraphers, name) ==
    IF HasKey(calligraphers, name)
    THEN LET info == Entry(calligraphers, name)
         IN  <<"U+1F4D6", " ">> (* 📖  *) \o name \o <<"U+4E66", "U+6CD5", "U+5BB6", "U+4FE1", "U+606F", "U+FF1A", "\n">> (* 书法家信息：\n *)
             \o <<" ", " ", " ", "U+671D", "U+4EE3", "U+FF1A">> (*    朝代： *) \o info.dynasty \o <<"\n">>
             \o <<" ", " ", " ", "U+64C5", "U+957F", "U+4E66", "U+4F53", "U+FF1A">> (*    擅长书体： *) \o info.style \o <<"\n">>
             \o <<" ", " ", " ", "U+4EE3", "U+8868", "U+4F5C", "U+54C1", "U+FF1A">> (*    代表作品： *) \o Join(<<"U+3001">> (* 、 *), info.works) \o <<"\n">>
             \o <<" ", " ", " ", "U+7B80", "U+4ECB", "U+FF1A">> (*    简介： *) \o info.description
    ELSE <<"U+274C", " ", "U+672A", "U+627E", "U+5230", "U+4E66", "U+6CD5", "U+5BB6", "'">> (* ❌ 未找到书法家' *) \o name \o <<"'", "U+7684", "U+4FE1", "U+606F">> (* '的信息 *)

\* p_error(p): a text that names the token, or the not-understood text at
\* the end of the input.  The parser does not use what p_error returns
\* unless p_error has called errok(), which it never does.
p_error(p) ==
    IF p.type # "None"
    THEN <<"U+8BED", "U+6CD5", "U+9519", "U+8BEF", " ", "n", "e", "a", "r", " ", "'">> (* 语法错误 near ' *) \o p.value \o <<"'">>
    ELSE <<"U+65E0", "U+6CD5", "U+7406", "U+89E3", "U+60A8", "U+7684", "U+67E5", "U+8BE2", "U+FF0C", "U+8BF7", "U+5C1D", "U+8BD5", "U+91CD", "U+65B0", "U+8868", "U+8FF0">> (* 无法理解您的查询，请尝试重新表述 *)

NotUnderstood == <<"U+65E0", "U+6CD5", "U+7406", "U+89E3", "U+60A8", "U+7684", "U+67E5", "U+8BE2", "U+FF0C", "U+8BF7", "U+5C1D", "U+8BD5", "U+91CD", "U+65B0", "U+8868", "U+8FF0">> (* 无法理解您的查询，请尝试重新表述 *)

ErrorPrefix == <<"U+89E3", "U+6790", "U+8FC7", "U+7A0B", "U+4E2D", "U+51FA", "U+73B0", "U+9519", "U+8BEF", "U+FF1A">> (* 解析过程中出现错误： *)

\* The rule function yacc calls when it reduces production k (p.callable):
\* p[0] from the values of the right side, p[1]..p[n].
Callable(k, calligraphers, styles, p) ==
    LET name == Productions[k].name
    IN  CASE name = "query" -> p[1]
          [] name = "find_calligrapher_detail" -> p_find_calligrapher_detail(calligraphers, p[3])
          [] name = "find_work_representative" -> p_find_work_representative(calligraphers, p[2])
          [] name = "find_direct" -> p_find_direct(calligraphers, p[2])
          [] name = "find_style" -> p_find_style(styles, p[3])
          [] name = "find_calligrapher_style" -> p_find_calligrapher_style(calligraphers, styles, p[2])
          [] name = "find_dynasty_calligraphers" -> p_find_dynasty_calligraphers(calligraphers, p[2])
          [] name = "find_calligrapher_info" -> p_find_calligrapher_info(calligraphers, p[2])

\* ---------------------------------------------------------------- inputs
\* The texts parse is called with.

SeqsUpTo(S, n) == UNION {[1..k -> S] : k \in 0..n}

\* Sentences of at most MaxParts parts: keyword forms (among them forms
\* that begin with a character of the name class), names of the three kinds
\* of entity, the filler and a character no rule knows.
Pieces == {<<"U+67E5", "U+8BE2">> (* 查询 *), <<"U+4E66", "U+6CD5", "U+5BB6">> (* 书法家 *), <<"U+4F5C", "U+54C1">> (* 作品 *), <<"U+98CE", "U+683C">> (* 风格 *), <<"U+4E66", "U+6CD5", "U+98CE", "U+683C">> (* 书法风格 *), <<"U+4FE1", "U+606F">> (* 信息 *),
           <<"U+5510", "U+671D">> (* 唐朝 *), <<"U+664B", "U+4EE3">> (* 晋代 *), <<"U+738B", "U+7FB2", "U+4E4B">> (* 王羲之 *), <<"U+5170", "U+4EAD", "U+5E8F">> (* 兰亭序 *), <<"U+884C", "U+4E66">> (* 行书 *), <<"U+7684">> (* 的 *), <<"U+672A">> (* 未 *)}

Sentences == {Flatten(parts) : parts \in SeqsUpTo(Pieces, MaxParts)}

FindForms == Range(t_FIND)

RoleForms == Range(t_CALLIGRAPHER)

WorkForms == Range(t_WORK)

StyleForms == Range(t_STYLE)

DynastyForms == Range(t_DYNASTY)

InfoForms == Range(t_INFO)

KeywordForms == {MasterForms[i].form : i \in 1..Len(MasterForms)}

CalligrapherNames == {CalligraphersInit[i].key : i \in 1..Len(CalligraphersInit)}

WorkNames == UNION {Range(CalligraphersInit[i].works) : i \in 1..Len(CalligraphersInit)}

StyleNames == {StylesInit[i].key : i \in 1..Len(StylesInit)}

KnownNames == CalligrapherNames \cup WorkNames \cup StyleNames

\* FIND ROLE K and FIND K INFO, in every surface form, for every calligrapher.
DetailQueries ==
    {f \o r \o k : f \in FindForms, r \in RoleForms, k \in CalligrapherNames}
    \cup {f \o k \o i : f \in FindForms, k \in CalligrapherNames, i \in InfoForms}

\* FIND DYNASTY ROLE in every surface form.
DynastyQueries == {f \o d \o r : f \in FindForms, d \in DynastyForms, r \in RoleForms}

\* A known name with a keyword right behind it, alone and after FIND.
NameThenKeyword ==
    {k \o w : k \in KnownNames, w \in KeywordForms}
    \cup {<<"U+641C", "U+7D22">> (* 搜索 *) \o k \o w : k \in KnownNames, w \in KeywordForms}

\* Names of at most MaxNameLen characters: two of the name class, the one
\* that also begins keywords, and one outside the class.
NameChars == {"U+738B", "U+7FB2", "U+4E66", "U+672A"} \* 王 羲 书 未

ShortNames == SeqsUpTo(NameChars, MaxNameLen) \ {<<>>}

DirectQueries ==
    {f \o k : f \in FindForms, k \in ShortNames \cup {<<"U+672A", "U+77E5", "U+4EBA", "U+7269">> (* 未知人物 *), <<"U+884C", "U+4E66">> (* 行书 *), <<"U+738B", "U+7FB2", "U+4E4B">> (* 王羲之 *), <<"U+5170", "U+4EAD", "U+5E8F">> (* 兰亭序 *)}}

Inputs == Sentences \cup DetailQueries \cup DynastyQueries \cup NameThenKeyword \cup DirectQueries

\* The texts of the runs in which one instance serves call after call.
SerialInputs == {
    <<>>,
    <<"U+67E5", "U+8BE2">> (* 查询 *),
    <<"U+672A", "U+77E5">> (* 未知 *),
    <<"U+67E5", "U+8BE2", "U+738B", "U+7FB2", "U+4E4B">> (* 查询王羲之 *),
    <<"U+67E5", "U+8BE2", "U+4E66", "U+6CD5", "U+5BB6", "U+738B", "U+7FB2", "U+4E4B">> (* 查询书法家王羲之 *),
    <<"U+4E66", "U+6CD5", "U+5BB6", "U+67E5", "U+8BE2", "U+738B", "U+7FB2", "U+4E4B">> (* 书法家查询王羲之 *),
    <<"U+67E5", "U+8BE2", "U+738B", "U+7FB2", "U+4E4B", "U+4FE1", "U+606F", "U+4F5C", "U+54C1">> (* 查询王羲之信息作品 *),
    <<"U+67E5", "U+8BE2", "U+738B", "U+7FB2", "U+4E4B", "U+4F5C", "U+54C1">> (* 查询王羲之作品 *),
    <<"U+67E5", "U+8BE2", "U+738B", "U+7FB2", "U+4E4B", "U+7684", "U+4F5C", "U+54C1">> (* 查询王羲之的作品 *),
    <<"U+67E5", "U+8BE2", "U+738B", "U+7FB2", "U+4E4B", "U+4E66", "U+6CD5", "U+4F5C", "U+54C1">> (* 查询王羲之书法作品 *),
    <<"U+67E5", "U+8BE2", "U+738B", "U+7FB2", "U+4E4B", "U+7684", "U+4E66", "U+6CD5", "U+4F5C", "U+54C1">> (* 查询王羲之的书法作品 *),
    <<"U+641C", "U+7D22", "U+82CF", "U+8F7C", "U+4E66", "U+6CD5", "U+98CE", "U+683C">> (* 搜索苏轼书法风格 *),
    <<"U+641C", "U+7D22", "U+82CF", "U+8F7C", "U+7684", "U+4E66", "U+6CD5", "U+98CE", "U+683C">> (* 搜索苏轼的书法风格 *),
    <<"U+67E5", "U+8BE2", "U+82CF", "U+8F7C", "U+98CE", "U+683C">> (* 查询苏轼风格 *),
    <<"U+67E5", "U+8BE2", "U+82CF", "U+8F7C", "U+7684", "U+98CE", "U+683C">> (* 查询苏轼的风格 *),
    <<"U+67E5", "U+8BE2", "U+738B", "U+7FB2", "U+4E4B", "U+5170", "U+4EAD", "U+5E8F">> (* 查询王羲之兰亭序 *),
    <<"U+67E5", "U+8BE2", "U+738B", "U+7FB2", "U+4E4B", "U+7684", "U+5170", "U+4EAD", "U+5E8F">> (* 查询王羲之的兰亭序 *),
    <<"U+67E5", "U+8BE2", "U+5F20", "U+65ED", "U+4FE1", "U+606F">> (* 查询张旭信息 *),
    <<"U+67E5", "U+8BE2", "U+5F20", "U+65ED", "U+7684", "U+4FE1", "U+606F">> (* 查询张旭的信息 *),
    <<"U+67E5", "U+8BE2", "U+5510", "U+671D", "U+4E66", "U+6CD5", "U+5BB6">> (* 查询唐朝书法家 *),
    <<"U+67E5", "U+8BE2", "U+5510", "U+671D", "U+7684", "U+4E66", "U+6CD5", "U+5BB6">> (* 查询唐朝的书法家 *),
    <<"U+67E5", "U+8BE2", "U+98CE", "U+683C", "U+884C", "U+4E66">> (* 查询风格行书 *) }

\* Tables for the rule functions to read that hold what the tables of
\* __init__ lack: a work listed by two calligraphers, a work that is also a
\* calligrapher's name, and a calligrapher whose style the styles table
\* does not have.
CalligraphersAlt == <<
    CalligraphersInit[1],
    [CalligraphersInit[2] EXCEPT !.style = <<"U+7BC6", "U+4E66">> (* 篆书 *),
                                 !.works = <<<<"U+5170", "U+4EAD", "U+5E8F">> (* 兰亭序 *), <<"U+738B", "U+7FB2", "U+4E4B">> (* 王羲之 *)>>],
    CalligraphersInit[5] >>

Tables == {<<CalligraphersInit, StylesInit>>, <<CalligraphersAlt, StylesInit>>}

\* The texts of the runs over Tables: every name of the tables and some
\* unknown ones asked for directly and for their style, every dynasty
\* form, and the texts of SerialInputs.
TableInputs ==
    {<<"U+67E5", "U+8BE2">> (* 查询 *) \o n : n \in KnownNames \cup {<<"U+738B">> (* 王 *), <<"U+738B", "U+7FB2", "U+4E4B", "U+5170", "U+4EAD", "U+5E8F">> (* 王羲之兰亭序 *)}}
    \cup {<<"U+67E5", "U+8BE2">> (* 查询 *) \o n \o <<"U+98CE", "U+683C">> (* 风格 *) : n \in KnownNames}
    \cup {<<"U+67E5", "U+8BE2">> (* 查询 *) \o d \o <<"U+4E66", "U+6CD5", "U+5BB6">> (* 书法家 *) : d \in DynastyForms}
    \cup SerialInputs

\* The texts of the two callers that share the instance.
ConcurrentInputs == {
    <<"U+67E5", "U+8BE2">> (* 查询 *),
    <<"U+67E5", "U+8BE2", "U+738B", "U+7FB2", "U+4E4B">> (* 查询王羲之 *),
    <<"U+67E5", "U+8BE2", "U+82CF", "U+8F7C", "U+98CE", "U+683C">> (* 查询苏轼风格 *),
    <<"U+67E5", "U+8BE2", "U+5510", "U+4EE3", "U+4E66", "U+6CD5", "U+5BB6">> (* 查询唐代书法家 *),
    <<"U+4E66", "U+6CD5", "U+5BB6", "U+67E5", "U+8BE2", "U+738B", "U+7FB2", "U+4E4B">> (* 书法家查询王羲之 *),
    <<"U+67E5", "U+8BE2", "U+738B", "U+7FB2", "U+4E4B", "U+4FE1", "U+606F", "U+4F5C", "U+54C1">> (* 查询王羲之信息作品 *) }

\* ------------------------------------------- EnhancedCalligraphySystem

\* None: apart from every text.
None == <<"None">>

\* The prefixes process_query tests the response of the LLM against.
QueryPrefixes == {<<"U+67E5", "U+8BE2">> (* 查询 *), <<"U+67E5", "U+627E">> (* 查找 *), <<"U+641C", "U+7D22">> (* 搜索 *), <<"U+627E">> (* 找 *), <<"U+8BF7", "U+95EE">> (* 请问 *), <<"U+6211", "U+60F3", "U+77E5", "U+9053">> (* 我想知道 *),
                  <<"U+4E86", "U+89E3">> (* 了解 *), <<"U+663E", "U+793A">> (* 显示 *), <<"U+5C55", "U+793A">> (* 展示 *)}

\* str.startswith with a tuple of prefixes
startswith(s, prefixes) == \E p \in prefixes : StartsAt(s, 0, p)

SessionStatsInit ==
    [total_queries |-> 0, successful_queries |-> 0,
     greeting_responses |-> 0, failed_queries |-> 0]

LogInit == [queries |-> <<>>, responses |-> <<>>, errors |-> <<>>]

\* What the user types.
Queries == {<<"U+4F60", "U+597D">> (* 你好 *), <<"U+738B", "U+7FB2", "U+4E4B">> (* 王羲之 *)}

\* What llm.deepseekchat returns when it returns: the empty response, a
\* greeting, a sentence of the DSL that does not begin with a prefix, and
\* sentences that do.
LLMResponses == {
    <<>>,
    <<"U+60A8", "U+597D", "U+8BF7", "U+95EE">> (* 您好请问 *),
    <<"U+4E66", "U+6CD5", "U+5BB6", "U+67E5", "U+8BE2", "U+738B", "U+7FB2", "U+4E4B">> (* 书法家查询王羲之 *),
    <<"U+67E5", "U+8BE2">> (* 查询 *),
    <<"U+67E5", "U+8BE2", "U+738B", "U+7FB2", "U+4E4B">> (* 查询王羲之 *),
    <<"U+627E", "U+67E5", "U+8BE2", "U+82CF", "U+8F7C", "U+98CE", "U+683C">> (* 找查询苏轼风格 *) }

\* str(e) of what llm.deepseekchat raises when it raises.
LLMErrors == {<<"L", "L", "M", " ", "A", "P", "I", "U+8BF7", "U+6C42", "U+8D85", "U+65F6">> (* LLM API请求超时 *), <<"U+7F51", "U+7EDC", "U+8FDE", "U+63A5", "U+9519", "U+8BEF">> (* 网络连接错误 *)}

\* The result of process_query, without its timestamp.
QueryResult(q, llm_response, dsl_result, response_type, success, error) ==
    [query |-> q, llm_response |-> llm_response, dsl_result |-> dsl_result,
     response_type |-> response_type, success |-> success, error |-> error]

\* The entry of log["errors"], without its timestamp.
ErrorEntry(q, e) == [query |-> q, error |-> e]

\* --------------------------------------------------------------- machine

\* Who calls parse on the one instance.
Threads == {1, 2}

VARIABLES
    calligraphers,   \* self.calligraphers
    styles,          \* self.styles
    lexdata,         \* self.lexer.lexdata (<<>> before the first input())
    lexpos,          \* self.lexer.lexpos
    lineno,          \* self.lexer.lineno
    errorok,         \* self.parser.errorok
    pc,              \* per caller: "idle", "run" (inside parse), "done" (parse returned)
    text,            \* per caller: the argument of parse
    statestack,      \* per call: the parser's state stack
    symstack,        \* per call: the parser's symbol stack
    lookahead,       \* per call: the current lookahead symbol, NoToken for None
    lookaheadstack,  \* per call: symbols pushed back during error recovery
    errorcount,      \* per call
    tok,             \* per call: what p_error returned last
    result,          \* per caller: what parse returned
    emitted,         \* history: the tokens lexer.token() gave this call
    overlapped,      \* history: another call was inside parse during this call
    session_stats,   \* EnhancedCalligraphySystem.session_stats, without start_time
    log,             \* EnhancedCalligraphySystem.log, without the timestamps
    query            \* the argument of the process_query that is inside dsl.parse

vars == <<calligraphers, styles, lexdata, lexpos, lineno, errorok, pc, text,
          statestack, symstack, lookahead, lookaheadstack, errorcount, tok,
          result, emitted, overlapped, session_stats, log, query>>

kb == <<calligraphers, styles>>

session == <<session_stats, log, query>>

lexer == <<lexdata, lexpos, lineno>>

locals == <<statestack, symstack, lookahead, lookaheadstack, errorcount, tok>>

\* The symbol yacc makes for the end of the input, and puts at the bottom
\* of the symbol stack.
EndSymbol == [type |-> "$end", value |-> <<>>, lineno |-> 0, lexpos |-> 0]

\* CalligraphyDSL(): the tables, a lexer with no input, a parser that has
\* reported no error yet; nobody is in parse.
Init ==
    /\ calligraphers = CalligraphersInit
    /\ styles = StylesInit
    /\ lexdata = <<>>
    /\ lexpos = 0
    /\ lineno = 1
    /\ errorok = TRUE
    /\ pc = [t \in Threads |-> "idle"]
    /\ text = [t \in Threads |-> <<>>]
    /\ statestack = [t \in Threads |-> <<>>]
    /\ symstack = [t \in Threads |-> <<>>]
    /\ lookahead = [t \in Threads |-> NoToken]
    /\ lookaheadstack = [t \in Threads |-> <<>>]
    /\ errorcount = [t \in Threads |-> 0]
    /\ tok = [t \in Threads |-> <<>>]
    /\ result = [t \in Threads |-> <<>>]
    /\ emitted = [t \in Threads |-> <<>>]
    /\ overlapped = [t \in Threads |-> FALSE]
    /\ session_stats = SessionStatsInit
    /\ log = LogInit
    /\ query = None

\* input() that takes the new data and leaves the position where it was.
lexer_input_stale(s, oldpos) == [lexdata |-> s, lexpos |-> oldpos]

\* lexer.input(s): the new data, scanned from its start.
lexer_input(s, oldpos) == [lexdata |-> s, lexpos |-> 0]

\* parse(text) up to the parser's loop: lexer.lineno = 1, then
\* parser.parse(text, lexer) gives the text to the lexer and starts from
\* empty stacks, state 0 over the end symbol.
Call(t, s) ==
    /\ pc[t] = "idle"
    /\ pc' = [pc EXCEPT ![t] = "run"]
    /\ text' = [text EXCEPT ![t] = s]
    /\ lineno' = 1
    /\ lexdata' = lexer_input(s, lexpos).lexdata
    /\ lexpos' = lexer_input(s, lexpos).lexpos
    /\ statestack' = [statestack EXCEPT ![t] = <<0>>]
    /\ symstack' = [symstack EXCEPT ![t] = <<EndSymbol>>]
    /\ lookahead' = [lookahead EXCEPT ![t] = NoToken]
    /\ lookaheadstack' = [lookaheadstack EXCEPT ![t] = <<>>]
    /\ errorcount' = [errorcount EXCEPT ![t] = 0]
    /\ tok' = [tok EXCEPT ![t] = <<>>]
    /\ result' = [result EXCEPT ![t] = <<>>]
    /\ emitted' = [emitted EXCEPT ![t] = <<>>]
    /\ overlapped' = [u \in Threads |->
                          IF u = t THEN \E v \in Threads \ {t} : pc[v] = "run"
                          ELSE overlapped[u] \/ pc[u] = "run"]
    /\ UNCHANGED <<kb, errorok>>

\* The parser's local `state`: always the top of the state stack.
State(t) == statestack[t][Len(statestack[t])]

\* The reduction of a defaulted state.
DefaultedAction(row) == CHOOSE x \in RowActions(row) : TRUE

\* t in the loop, once the loop has the symbol it needs: the defaulted
\* reduction, or the table's entry for the lookahead.  op "wait" while the
\* loop still has to read a symbol.
ActionIn(state, la) ==
    IF state \in defaulted_states THEN DefaultedAction(lr_action[state])
    ELSE IF la = NoToken THEN [op |-> "wait", prod |-> 0, to |-> 0]
    ELSE lr_action[state][la.type]

Action(t) == IF pc[t] = "run" THEN ActionIn(State(t), lookahead[t]) ELSE NoAction

\* The loop reads a symbol only in a state that is not defaulted, and only
\* when it holds none.
GetToken(t) ==
    /\ pc[t] = "run"
    /\ Action(t).op = "wait"
    /\ IF lookaheadstack[t] # <<>>
       THEN /\ lookahead' = [lookahead EXCEPT
                                ![t] = lookaheadstack[t][Len(lookaheadstack[t])]]
            /\ lookaheadstack' = [lookaheadstack EXCEPT
                                     ![t] = SubSeq(@, 1, Len(@) - 1)]
            /\ UNCHANGED <<lexer, emitted>>
       ELSE \E r \in {token(lexdata, lexpos, lineno)} :
                /\ lexpos' = r.lexpos
                /\ lineno' = r.lineno
                /\ lookahead' = [lookahead EXCEPT
                                    ![t] = IF r.tok = NoToken THEN EndSymbol ELSE r.tok]
                /\ emitted' = [emitted EXCEPT
                                  ![t] = IF r.tok = NoToken THEN @ ELSE Append(@, r.tok)]
                /\ UNCHANGED <<lexdata, lookaheadstack>>
    /\ UNCHANGED <<kb, errorok, pc, text, statestack, symstack, errorcount, tok, result,
                   overlapped>>

\* t > 0: shift the lookahead.
Shift(t) ==
    /\ pc[t] = "run"
    /\ \E act \in {Action(t)} :
        /\ act.op = "shift"
        /\ statestack' = [statestack EXCEPT ![t] = Append(@, act.to)]
    /\ symstack' = [symstack EXCEPT ![t] = Append(@, lookahead[t])]
    /\ lookahead' = [lookahead EXCEPT ![t] = NoToken]
    /\ errorcount' = [errorcount EXCEPT ![t] = IF @ > 0 THEN @ - 1 ELSE @]
    /\ UNCHANGED <<kb, lexer, errorok, pc, text, lookaheadstack, tok, result, emitted, overlapped>>

\* parse without its fallback: what parser.parse gave, as it is.
ParseReturn_raw(r) == r

\* return result if result else "..." in parse; parser.parse gives None
\* (here <<>>) when it gives up.
ParseReturn(r) == IF r = <<>> THEN NotUnderstood ELSE r

\* A reduction whose rule function takes the first entry out of the
\* calligraphers table while it looks a name up.
ReduceBy_pop(t, k) ==
    /\ \E plen \in {Len(Productions[k].rhs)} :
       \E to \in {lr_goto[statestack[t][Len(statestack[t]) - plen]][Productions[k].name]} :
           IF to >= 0
           THEN /\ symstack' =
                      [symstack EXCEPT
                          ![t] = Append(SubSeq(@, 1, Len(@) - plen),
                                        [type |-> Productions[k].name,
                                         value |-> Callable(k, calligraphers, styles,
                                                       [i \in 1..plen |->
                                                           @[Len(@) - plen + i].value]),
                                         lineno |-> 0, lexpos |-> 0])]
                /\ statestack' = [statestack EXCEPT
                                     ![t] = Append(SubSeq(@, 1, Len(@) - plen), to)]
                /\ UNCHANGED <<pc, result>>
           ELSE /\ pc' = [pc EXCEPT ![t] = "done"]
                /\ result' = [result EXCEPT
                                 ![t] = ErrorPrefix \o <<"'">> \o <<Productions[k].name>> \o <<"'">>]
                /\ UNCHANGED <<symstack, statestack>>
    /\ calligraphers' = IF k \in 9..15 THEN Tail(calligraphers) ELSE calligraphers
    /\ UNCHANGED <<styles, lexer, errorok, text, lookahead, lookaheadstack, errorcount, tok, emitted, overlapped>>

\* Reducing production k.  The rule function makes p[0] from the right
\* side's values; the right side is popped, the nonterminal pushed, and the
\* goto table gives the next state.  A goto the table lacks is a KeyError,
\* which parse turns into its error text.
ReduceBy(t, k) ==
    /\ \E plen \in {Len(Productions[k].rhs)} :
       \E to \in {lr_goto[statestack[t][Len(statestack[t]) - plen]][Productions[k].name]} :
           IF to >= 0
           THEN /\ symstack' =
                      [symstack EXCEPT
                          ![t] = Append(SubSeq(@, 1, Len(@) - plen),
                                        [type |-> Productions[k].name,
                                         value |-> Callable(k, calligraphers, styles,
                                                       [i \in 1..plen |->
                                                           @[Len(@) - plen + i].value]),
                                         lineno |-> 0, lexpos |-> 0])]
                /\ statestack' = [statestack EXCEPT
                                     ![t] = Append(SubSeq(@, 1, Len(@) - plen), to)]
                /\ UNCHANGED <<pc, result>>
           ELSE /\ pc' = [pc EXCEPT ![t] = "done"]
                /\ result' = [result EXCEPT
                                 ![t] = ErrorPrefix \o <<"'">> \o <<Productions[k].name>> \o <<"'">>]
                /\ UNCHANGED <<symstack, statestack>>
    /\ UNCHANGED <<kb, lexer, errorok, text, lookahead, lookaheadstack, errorcount, tok, emitted, overlapped>>

\* t < 0: reduce production -t.
Reduce(t) ==
    /\ pc[t] = "run"
    /\ \E act \in {Action(t)} :
        /\ act.op = "reduce"
        /\ ReduceBy(t, act.prod)

\* t == 0: the value of the symbol on top is the parser's result, and parse
\* returns it.
Accept(t) ==
    /\ pc[t] = "run"
    /\ Action(t).op = "accept"
    /\ pc' = [pc EXCEPT ![t] = "done"]
    /\ result' = [result EXCEPT ![t] = ParseReturn(symstack[t][Len(symstack[t])].value)]
    /\ UNCHANGED <<kb, lexer, errorok, text, locals, emitted, overlapped>>

\* t is None: a syntax error.
SyntaxError(t) ==
    /\ pc[t] = "run"
    /\ Action(t).op = "none"

\* The first part of the error branch: p_error is called for the first
\* error of a call (errorcount == 0), or while errorok still holds; either
\* way errorcount is set to error_count.  The token p_error gets is None at
\* the end of the input.
Reported(t) == errorcount[t] = 0 \/ errorok

ErrorReport(t) ==
    /\ errorcount' = [errorcount EXCEPT ![t] = error_count]
    /\ errorok' = IF Reported(t) THEN FALSE ELSE errorok
    /\ tok' = [tok EXCEPT
                  ![t] = IF Reported(t)
                         THEN p_error(IF lookahead[t].type = "$end" THEN NoToken
                                      ELSE lookahead[t])
                         ELSE @]

\* An error recovery that gives up at the first token it cannot place.
ErrorDiscard_bail(t) ==
    /\ SyntaxError(t)
    /\ Len(statestack[t]) <= 1
    /\ lookahead[t].type # "$end"
    /\ ErrorReport(t)
    /\ pc' = [pc EXCEPT ![t] = "done"]
    /\ result' = [result EXCEPT ![t] = ParseReturn(<<>>)]
    /\ UNCHANGED <<kb, lexer, text, statestack, symstack, lookahead, lookaheadstack, emitted,
                   overlapped>>

\* case 1: the state stack is down to one entry and input is left: the
\* symbol is discarded, the pushed-back symbols too, and the parse goes on
\* from state 0 with the next token.
ErrorDiscard(t) ==
    /\ SyntaxError(t)
    /\ Len(statestack[t]) <= 1
    /\ lookahead[t].type # "$end"
    /\ ErrorReport(t)
    /\ lookahead' = [lookahead EXCEPT ![t] = NoToken]
    /\ lookaheadstack' = [lookaheadstack EXCEPT ![t] = <<>>]
    /\ UNCHANGED <<kb, lexer, pc, text, statestack, symstack, result, emitted, overlapped>>

\* case 2, at the end of the input: the parser returns None, and parse the
\* not-understood text.
ErrorBail(t) ==
    /\ SyntaxError(t)
    /\ lookahead[t].type = "$end"
    /\ ErrorReport(t)
    /\ pc' = [pc EXCEPT ![t] = "done"]
    /\ result' = [result EXCEPT ![t] = ParseReturn(<<>>)]
    /\ UNCHANGED <<kb, lexer, text, statestack, symstack, lookahead, lookaheadstack, emitted, overlapped>>

\* The lookahead is a token and the stack is deeper: with an error symbol on
\* top of the stack the token is dropped; otherwise the token is pushed
\* back and an error symbol becomes the lookahead.
ErrorSymbol(t) ==
    /\ SyntaxError(t)
    /\ Len(statestack[t]) > 1
    /\ lookahead[t].type \notin {"$end", "error"}
    /\ ErrorReport(t)
    /\ IF symstack[t][Len(symstack[t])].type = "error"
       THEN /\ lookahead' = [lookahead EXCEPT ![t] = NoToken]
            /\ UNCHANGED lookaheadstack
       ELSE /\ lookaheadstack' = [lookaheadstack EXCEPT ![t] = Append(@, lookahead[t])]
            /\ lookahead' = [lookahead EXCEPT
                                ![t] = [type |-> "error", value |-> lookahead[t].value,
                                        lineno |-> lookahead[t].lineno,
                                        lexpos |-> lookahead[t].lexpos]]
    /\ UNCHANGED <<kb, lexer, pc, text, statestack, symstack, result, emitted, overlapped>>

\* The lookahead is the error symbol and no state takes it: pop one symbol
\* and one state.
ErrorPop(t) ==
    /\ SyntaxError(t)
    /\ Len(statestack[t]) > 1
    /\ lookahead[t].type = "error"
    /\ ErrorReport(t)
    /\ symstack' = [symstack EXCEPT ![t] = SubSeq(@, 1, Len(@) - 1)]
    /\ statestack' = [statestack EXCEPT ![t] = SubSeq(@, 1, Len(@) - 1)]
    /\ UNCHANGED <<kb, lexer, pc, text, lookahead, lookaheadstack, result, emitted, overlapped>>

\* The caller has the returned text; the call's locals are gone.
Return(t) ==
    /\ pc[t] = "done"
    /\ pc' = [pc EXCEPT ![t] = "idle"]
    /\ text' = [text EXCEPT ![t] = <<>>]
    /\ statestack' = [statestack EXCEPT ![t] = <<>>]
    /\ symstack' = [symstack EXCEPT ![t] = <<>>]
    /\ lookahead' = [lookahead EXCEPT ![t] = NoToken]
    /\ lookaheadstack' = [lookaheadstack EXCEPT ![t] = <<>>]
    /\ errorcount' = [errorcount EXCEPT ![t] = 0]
    /\ tok' = [tok EXCEPT ![t] = <<>>]
    /\ result' = [result EXCEPT ![t] = <<>>]
    /\ emitted' = [emitted EXCEPT ![t] = <<>>]
    /\ overlapped' = [overlapped EXCEPT ![t] = FALSE]
    /\ UNCHANGED <<kb, lexer, errorok>>

\* One call on a new instance.
CallOnce == pc[1] = "idle" /\ \E s \in Inputs : Call(1, s) /\ UNCHANGED session

GetTokenStep == \E t \in Threads : GetToken(t) /\ UNCHANGED session

ShiftStep == \E t \in Threads : Shift(t) /\ UNCHANGED session

ReduceStep == \E t \in Threads : Reduce(t) /\ UNCHANGED session

AcceptStep == \E t \in Threads : Accept(t) /\ UNCHANGED session

ErrorDiscardStep == \E t \in Threads : ErrorDiscard(t) /\ UNCHANGED session

ErrorBailStep == \E t \in Threads : ErrorBail(t) /\ UNCHANGED session

ErrorSymbolStep == \E t \in Threads : ErrorSymbol(t) /\ UNCHANGED session

ErrorPopStep == \E t \in Threads : ErrorPop(t) /\ UNCHANGED session

Next ==
    \/ CallOnce
    \/ GetTokenStep
    \/ ShiftStep
    \/ ReduceStep
    \/ AcceptStep
    \/ ErrorDiscardStep
    \/ ErrorBailStep
    \/ ErrorSymbolStep
    \/ ErrorPopStep

Spec == Init /\ [][Next]_vars

\* One instance serving call after call, one at a time: a call starts only
\* when no other call is inside parse.
CallSerial ==
    /\ \A u \in Threads : pc[u] # "run"
    /\ \E t \in Threads : pc[t] = "idle" /\ \E s \in SerialInputs : Call(t, s) /\ UNCHANGED session

ReturnStep == \E t \in Threads : Return(t) /\ UNCHANGED session

NextSerial ==
    \/ CallSerial
    \/ GetTokenStep
    \/ ShiftStep
    \/ ReduceStep
    \/ AcceptStep
    \/ ErrorDiscardStep
    \/ ErrorBailStep
    \/ ErrorSymbolStep
    \/ ErrorPopStep
    \/ ReturnStep

SpecSerial == Init /\ [][NextSerial]_vars

\* The instance with the tables drawn from Tables.
InitTables ==
    /\ \E kbt \in Tables : calligraphers = kbt[1] /\ styles = kbt[2]
    /\ lexdata = <<>>
    /\ lexpos = 0
    /\ lineno = 1
    /\ errorok = TRUE
    /\ pc = [t \in Threads |-> "idle"]
    /\ text = [t \in Threads |-> <<>>]
    /\ statestack = [t \in Threads |-> <<>>]
    /\ symstack = [t \in Threads |-> <<>>]
    /\ lookahead = [t \in Threads |-> NoToken]
    /\ lookaheadstack = [t \in Threads |-> <<>>]
    /\ errorcount = [t \in Threads |-> 0]
    /\ tok = [t \in Threads |-> <<>>]
    /\ result = [t \in Threads |-> <<>>]
    /\ emitted = [t \in Threads |-> <<>>]
    /\ overlapped = [t \in Threads |-> FALSE]
    /\ session_stats = SessionStatsInit
    /\ log = LogInit
    /\ query = None

\* One call, with a text of TableInputs.
CallTables == pc[1] = "idle" /\ \E s \in TableInputs : Call(1, s) /\ UNCHANGED session

NextTables ==
    \/ CallTables
    \/ GetTokenStep
    \/ ShiftStep
    \/ ReduceStep
    \/ AcceptStep
    \/ ErrorDiscardStep
    \/ ErrorBailStep
    \/ ErrorSymbolStep
    \/ ErrorPopStep

SpecTables == InitTables /\ [][NextTables]_vars

\* Two callers on one instance with nothing that keeps them apart: a call
\* may start while the other is inside parse, and the steps of the two
\* interleave.  Each caller calls once.
CallConcurrent == \E t \in Threads : pc[t] = "idle" /\ \E s \in ConcurrentInputs : Call(t, s) /\ UNCHANGED session

NextConcurrent ==
    \/ CallConcurrent
    \/ GetTokenStep
    \/ ShiftStep
    \/ ReduceStep
    \/ AcceptStep
    \/ ErrorDiscardStep
    \/ ErrorBailStep
    \/ ErrorSymbolStep
    \/ ErrorPopStep

SpecConcurrent == Init /\ [][NextConcurrent]_vars


\* --------------------------------- EnhancedCalligraphySystem.process_query
\* The system calls its DSL as caller 1, one process_query at a time.

\* An except branch that counts the failure without its append to
\* log["errors"].
process_query_except_silent(q, e) ==
    /\ pc[1] = "idle"
    /\ session_stats.total_queries < MaxQueries
    /\ session_stats' = [session_stats EXCEPT !.total_queries = @ + 1,
                                              !.failed_queries = @ + 1]
    /\ log' = [log EXCEPT
                 !.queries = Append(@, q),
                 !.responses = Append(@, QueryResult(q, None, None, None, FALSE, e))]
    /\ UNCHANGED <<kb, lexer, errorok, pc, text, locals, result, emitted, overlapped, query>>

\* process_query where llm.deepseekchat raises e: the except branch and the
\* two appends after it.
process_query_except(q, e) ==
    /\ pc[1] = "idle"
    /\ session_stats.total_queries < MaxQueries
    /\ session_stats' = [session_stats EXCEPT !.total_queries = @ + 1,
                                              !.failed_queries = @ + 1]
    /\ log' = [log EXCEPT
                 !.errors = Append(@, ErrorEntry(q, e)),
                 !.queries = Append(@, q),
                 !.responses = Append(@, QueryResult(q, None, None, None, FALSE, e))]
    /\ UNCHANGED <<kb, lexer, errorok, pc, text, locals, result, emitted, overlapped, query>>

\* process_query where the response does not start with a prefix: the else
\* branch and the two appends.
process_query_greeting(q, llm_response) ==
    /\ pc[1] = "idle"
    /\ session_stats.total_queries < MaxQueries
    /\ ~startswith(llm_response, QueryPrefixes)
    /\ session_stats' = [session_stats EXCEPT !.total_queries = @ + 1,
                                              !.greeting_responses = @ + 1]
    /\ log' = [log EXCEPT
                 !.queries = Append(@, q),
                 !.responses = Append(@, QueryResult(q, llm_response, None,
                                                     <<"U+95EE", "U+5019", "U+7C7B">> (* 问候类 *), TRUE, None))]
    /\ UNCHANGED <<kb, lexer, errorok, pc, text, locals, result, emitted, overlapped, query>>

\* process_query where the response starts with a prefix, up to the entry
\* of dsl.parse(llm_response).
process_query_parse(q, llm_response) ==
    /\ pc[1] = "idle"
    /\ session_stats.total_queries < MaxQueries
    /\ startswith(llm_response, QueryPrefixes)
    /\ session_stats' = [session_stats EXCEPT !.total_queries = @ + 1]
    /\ query' = q
    /\ Call(1, llm_response)
    /\ UNCHANGED log

\* ... and from the return of dsl.parse to the end of process_query.
process_query_parsed ==
    /\ pc[1] = "done"
    /\ query # None
    /\ session_stats' = [session_stats EXCEPT !.successful_queries = @ + 1]
    /\ log' = [log EXCEPT
                 !.queries = Append(@, query),
                 !.responses = Append(@, QueryResult(query, text[1], result[1],
                                                     <<"U+67E5", "U+8BE2", "U+7C7B">> (* 查询类 *), TRUE, None))]
    /\ query' = None
    /\ Return(1)

ProcessQueryExcept == \E q \in Queries : \E e \in LLMErrors : process_query_except(q, e)

ProcessQueryGreeting ==
    \E q \in Queries : \E r \in LLMResponses : process_query_greeting(q, r)

ProcessQueryParse ==
    pc[1] = "idle" /\ \E q \in Queries : \E r \in LLMResponses : process_query_parse(q, r)

NextSession ==
    \/ ProcessQueryExcept
    \/ ProcessQueryGreeting
    \/ ProcessQueryParse
    \/ process_query_parsed
    \/ GetTokenStep
    \/ ShiftStep
    \/ ReduceStep
    \/ AcceptStep
    \/ ErrorDiscardStep
    \/ ErrorBailStep
    \/ ErrorSymbolStep
    \/ ErrorPopStep

SpecSession == Init /\ [][NextSession]_vars


\* ---------------------------------------------------------------- claims

Done(t) == pc[t] = "done"

Kinds(toks) == [i \in 1..Len(toks) |-> toks[i].type]

Values(toks) == [i \in 1..Len(toks) |-> toks[i].value]

\* The grammar rules of the seven sentence shapes.
ShapeRules == {k \in 1..Len(Productions) : Productions[k].name \notin {"S'", "query"}}

IsShape(kinds) == \E k \in ShapeRules : Productions[k].rhs = kinds

LastTokens(toks, m) == SubSeq(toks, Len(toks) - m + 1, Len(toks))

\* What a rule function can give for a value among the call's tokens.
ResolverTexts(t) ==
    {Callable(k, calligraphers, styles, <<v, v, v>>) :
        k \in ShapeRules, v \in Range(Values(emitted[t]))}

\* The call of t has a step to take: its table entry is one the loop acts
\* on, a reduction finds its right side on the stack, and a syntax error
\* falls under one of the cases of the recovery.
CanStep(t) ==
    \/ Action(t).op \in {"wait", "shift", "accept"}
    \/ /\ Action(t).op = "reduce"
       /\ Len(symstack[t]) > Len(Productions[Action(t).prod].rhs)
       /\ Len(statestack[t]) > Len(Productions[Action(t).prod].rhs)
    \/ /\ SyntaxError(t)
       /\ \/ Len(statestack[t]) <= 1 /\ lookahead[t].type # "$end"
          \/ lookahead[t].type = "$end"
          \/ Len(statestack[t]) > 1 /\ lookahead[t].type \notin {"$end", "error"}
          \/ Len(statestack[t]) > 1 /\ lookahead[t].type = "error"

\* C1: parse is total.  A call that has returned has returned a non-empty
\* text, which is the not-understood text, a text that starts with the
\* error prefix, or what a rule function gives for a value of the input;
\* and a call that has not returned can always take its next step, so no
\* input leaves it without a result.
C1_ParseTotal ==
    \A t \in Threads :
        /\ Done(t) =>
              /\ result[t] # <<>>
              /\ \/ result[t] = NotUnderstood
                 \/ StartsAt(result[t], 0, ErrorPrefix)
                 \/ result[t] \in ResolverTexts(t)
        /\ pc[t] = "run" => CanStep(t)

\* A text of one character that no rule knows: no token, not understood.
C1_Witness ==
    /\ Done(1)
    /\ text[1] = <<"U+672A">> (* 未 *)
    /\ emitted[1] = <<>>
    /\ result[1] = NotUnderstood

\* C2: a call whose tokens are exactly one shape returns what that shape's
\* rule function gives for the tokens' values; a shape's nonterminal is on
\* the stack only over the tokens of that shape, read last; and
\* find_direct (FIND NAME) is on the stack only when the input has ended
\* after the name.
C2_ShapeResolved ==
    \A t \in Threads :
        /\ Done(t) =>
              \A k \in ShapeRules :
                  Kinds(emitted[t]) = Productions[k].rhs =>
                      result[t] = Callable(k, calligraphers, styles, Values(emitted[t]))
        /\ pc[t] = "run" =>
              \A i \in 1..Len(symstack[t]) : \A k \in ShapeRules :
                  symstack[t][i].type = Productions[k].name =>
                      /\ Len(emitted[t]) >= Len(Productions[k].rhs)
                      /\ Kinds(LastTokens(emitted[t], Len(Productions[k].rhs)))
                            = Productions[k].rhs
                      /\ symstack[t][i].value =
                            Callable(k, calligraphers, styles,
                                     Values(LastTokens(emitted[t], Len(Productions[k].rhs))))
                      /\ Productions[k].name = "find_direct" =>
                            /\ lookahead[t].type = "$end"
                            /\ token(lexdata, lexpos, lineno).tok = NoToken

\* FIND NAME STYLE for a calligrapher of the table, answered by rule 5.
C2_Witness ==
    /\ Done(1)
    /\ Kinds(emitted[1]) = <<"FIND", "CHINESE_NAME", "STYLE">>
    /\ emitted[1][2].value = <<"U+738B", "U+7FB2", "U+4E4B">> (* 王羲之 *)
    /\ result[1] = p_find_calligrapher_style(calligraphers, styles, <<"U+738B", "U+7FB2", "U+4E4B">> (* 王羲之 *))
    /\ result[1] # p_find_direct(calligraphers, <<"U+738B", "U+7FB2", "U+4E4B">> (* 王羲之 *))

\* C3: a call whose tokens are not exactly one shape returns the
\* not-understood text.
C3_NoPartialCredit ==
    \A t \in Threads :
        (Done(t) /\ ~IsShape(Kinds(emitted[t]))) => result[t] = NotUnderstood

\* The texts FIND ROLE K and FIND K INFO, in every surface form.
DetailTexts(K) ==
    {f \o r \o K : f \in FindForms, r \in RoleForms}
    \cup {f \o K \o i : f \in FindForms, i \in InfoForms}

\* C4: for a calligrapher K of the table, FIND ROLE K and FIND K INFO in
\* every surface form return one and the same text, and it holds K's
\* dynasty, K's style, each of K's works and K's description.
C4_DetailAndInfoAgree ==
    \A t \in Threads : Done(t) =>
        \A K \in CalligrapherNames : text[t] \in DetailTexts(K) =>
            /\ result[t] = p_find_calligrapher_detail(calligraphers, K)
            /\ Contains(result[t], Entry(calligraphers, K).dynasty)
            /\ Contains(result[t], Entry(calligraphers, K).style)
            /\ Contains(result[t], Entry(calligraphers, K).description)
            /\ \A w \in Range(Entry(calligraphers, K).works) : Contains(result[t], w)

\* FIND K INFO for 欧阳询, whose name ends with a character of a FIND form.
C4_Witness ==
    /\ Done(1)
    /\ text[1] = <<"U+67E5", "U+8BE2", "U+6B27", "U+9633", "U+8BE2", "U+4FE1", "U+606F">> (* 查询欧阳询信息 *)
    /\ Kinds(emitted[1]) = <<"FIND", "CHINESE_NAME", "INFO">>
    /\ result[1] = p_find_calligrapher_detail(calligraphers, <<"U+6B27", "U+9633", "U+8BE2">> (* 欧阳询 *))
    /\ Contains(result[1], <<"U+4E5D", "U+6210", "U+5BAB", "U+91B4", "U+6CC9", "U+94ED">> (* 九成宫醴泉铭 *))

\* The generic not-found text of FIND NAME.
GenericNotFound(K) == <<"U+274C", " ", "U+672A", "U+627E", "U+5230", "'">> (* ❌ 未找到' *) \o K \o <<"'", "U+7684", "U+76F8", "U+5173", "U+4FE1", "U+606F">> (* '的相关信息 *)

\* The names asked for directly that no table knows as calligrapher or work.
AbsentNames ==
    (ShortNames \cup {<<"U+672A", "U+77E5", "U+4EBA", "U+7269">> (* 未知人物 *), <<"U+884C", "U+4E66">> (* 行书 *)}) \ (CalligrapherNames \cup WorkNames)

\* C5 as stated: FIND K, for every K that is neither a calligrapher nor a
\* work, whatever its characters, returns the generic not-found text with K.
C5_AnyAbsentName ==
    \A t \in Threads : Done(t) =>
        \A f \in FindForms : \A K \in AbsentNames :
            text[t] = f \o K => result[t] = GenericNotFound(K)

\* C5 amended: FIND K, for every K that is a non-empty run of characters of
\* the name class and neither a calligrapher nor a work, returns the
\* generic not-found text with K.
C5_AbsentNameOfTheClass ==
    \A t \in Threads : Done(t) =>
        \A f \in FindForms : StartsAt(text[t], 0, f) =>
          \A K \in AbsentNames :
            (text[t] = f \o K /\ Range(K) \subseteq t_CHINESE_NAME) =>
                /\ Kinds(emitted[t]) = <<"FIND", "CHINESE_NAME">>
                /\ emitted[t][2].value = K
                /\ result[t] = GenericNotFound(K)

\* A name of three characters of the class, the keyword-leading one among them.
C5_Witness ==
    /\ Done(1)
    /\ text[1] = <<"U+67E5", "U+627E", "U+738B", "U+4E66", "U+7FB2">> (* 查找王书羲 *)
    /\ result[1] = GenericNotFound(<<"U+738B", "U+4E66", "U+7FB2">> (* 王书羲 *))

\* b is FIND K W with the filler put between K and W, and a is the same
\* without the filler, for a calligrapher K and a WORK, STYLE or INFO form W.
FillerBetween(a, b) ==
    \E f \in FindForms : \E K \in CalligrapherNames :
    \E W \in WorkForms \cup StyleForms \cup InfoForms :
        /\ a = f \o K \o W
        /\ b = f \o K \o <<"U+7684">> (* 的 *) \o W

\* C6: FIND K W and FIND K 的 W, for a calligrapher K and every WORK, STYLE
\* and INFO form W, have the same tokens and get the same result.
C6_FillerInvariance ==
    (Done(1) /\ Done(2) /\ FillerBetween(text[1], text[2])) =>
        /\ Kinds(emitted[1]) = Kinds(emitted[2])
        /\ result[1] = result[2]

\* The type of the keyword rule a surface form belongs to.
RuleOf(W) == (CHOOSE i \in 1..Len(MasterForms) : MasterForms[i].form = W)

\* C7: a known name with a keyword form right behind it is tokenized as the
\* name, whole and alone, followed by the keyword's token.
C7_KeywordEndsName ==
    \A t \in Threads : Done(t) =>
        \A K \in KnownNames : \A W \in KeywordForms :
            text[t] = K \o W =>
                /\ Len(emitted[t]) = 2
                /\ emitted[t][1].type = "CHINESE_NAME"
                /\ emitted[t][1].value = K
                /\ emitted[t][2].type = MasterForms[RuleOf(W)].type

\* The era a DYNASTY form stands for: the forms in 朝 and 代 of one era
\* stand for the form in 代.
CanonicalEra(d) ==
    IF Len(d) = 2 /\ d[2] = "U+671D" (* 朝 *) THEN <<d[1], "U+4EE3" (* 代 *)>> ELSE d

\* C8: FIND D ROLE returns, in every surface form, what rule 6 gives for the
\* era D stands for, so two forms of one era return the same text; and the
\* value of every DYNASTY token is left as it is by the synonym map.
C8_DynastySynonyms ==
    \A t \in Threads :
        /\ \A i \in 1..Len(emitted[t]) :
              emitted[t][i].type = "DYNASTY" =>
                  /\ dynasty_map(emitted[t][i].value) = emitted[t][i].value
                  /\ emitted[t][i].value = CanonicalEra(emitted[t][i].value)
        /\ Done(t) =>
              \A f \in FindForms : \A d \in DynastyForms : \A r \in RoleForms :
                  text[t] = f \o d \o r =>
                      result[t] = p_find_dynasty_calligraphers(calligraphers, CanonicalEra(d))

\* 唐朝 asked for, 唐代 answered: the four calligraphers of 唐代.
C8_Witness ==
    /\ Done(1)
    /\ text[1] = <<"U+67E5", "U+8BE2", "U+5510", "U+671D", "U+4E66", "U+6CD5", "U+5BB6">> (* 查询唐朝书法家 *)
    /\ emitted[1][2].value = <<"U+5510", "U+4EE3">> (* 唐代 *)
    /\ result[1] = p_find_dynasty_calligraphers(calligraphers, <<"U+5510", "U+4EE3">> (* 唐代 *))
    /\ Contains(result[1], <<"U+989C", "U+771F", "U+537F", "U+FF08", "U+6977", "U+4E66", "U+FF09", "U+3001", "U+67F3", "U+516C", "U+6743", "U+FF08", "U+6977", "U+4E66", "U+FF09", "U+3001", "U+5F20", "U+65ED", "U+FF08", "U+8349", "U+4E66", "U+FF09", "U+3001", "U+6B27", "U+9633", "U+8BE2", "U+FF08", "U+6977", "U+4E66", "U+FF09">> (* 颜真卿（楷书）、柳公权（楷书）、张旭（草书）、欧阳询（楷书） *))

\* C9: two calls with the same text on one instance, whatever calls came
\* before and between them, return the same text; and every call starts
\* from the start of its text with the stacks of a new parse.
C9_HistoryIndependence ==
    /\ (Done(1) /\ Done(2) /\ text[1] = text[2]) =>
          /\ result[1] = result[2]
          /\ emitted[1] = emitted[2]
    /\ \A t \in Threads :
          (pc[t] = "run" /\ emitted[t] = <<>> /\ lookahead[t] = NoToken
              /\ errorcount[t] = 0) =>
              /\ lexdata = text[t]
              /\ lexpos = 0
              /\ lineno = 1
              /\ statestack[t] = <<0>>
              /\ symstack[t] = <<EndSymbol>>

\* The same question answered twice on an instance that has met a syntax
\* error in another call.
C9_Witness ==
    /\ Done(1) /\ Done(2)
    /\ text[1] = <<"U+67E5", "U+8BE2", "U+738B", "U+7FB2", "U+4E4B">> (* 查询王羲之 *)
    /\ text[2] = text[1]
    /\ errorok = FALSE
    /\ result[1] = p_find_direct(calligraphers, <<"U+738B", "U+7FB2", "U+4E4B">> (* 王羲之 *))
    /\ result[2] = result[1]

\* The not-found text of each shape's rule, for the value it looked up.
NotFoundText(name, X) ==
    CASE name \in {"find_calligrapher_detail", "find_calligrapher_info"} ->
           <<"U+274C", " ", "U+672A", "U+627E", "U+5230", "U+4E66", "U+6CD5", "U+5BB6", "'">> (* ❌ 未找到书法家' *) \o X \o <<"'", "U+7684", "U+4FE1", "U+606F">> (* '的信息 *)
      [] name = "find_work_representative" -> <<"U+274C", " ", "U+672A", "U+627E", "U+5230">> (* ❌ 未找到 *) \o X \o <<"U+7684", "U+4F5C", "U+54C1", "U+8BB0", "U+5F55">> (* 的作品记录 *)
      [] name = "find_direct" -> <<"U+274C", " ", "U+672A", "U+627E", "U+5230", "'">> (* ❌ 未找到' *) \o X \o <<"'", "U+7684", "U+76F8", "U+5173", "U+4FE1", "U+606F">> (* '的相关信息 *)
      [] name = "find_style" -> <<"U+274C", " ", "U+672A", "U+627E", "U+5230">> (* ❌ 未找到 *) \o X \o <<"U+4E66", "U+4F53", "U+7684", "U+8BE6", "U+7EC6", "U+8BF4", "U+660E">> (* 书体的详细说明 *)
      [] name = "find_calligrapher_style" -> <<"U+274C", " ", "U+672A", "U+627E", "U+5230">> (* ❌ 未找到 *) \o X \o <<"U+7684", "U+4E66", "U+6CD5", "U+98CE", "U+683C", "U+4FE1", "U+606F">> (* 的书法风格信息 *)
      [] name = "find_dynasty_calligraphers" -> <<"U+274C", " ", "U+672A", "U+627E", "U+5230">> (* ❌ 未找到 *) \o X \o <<"U+7684", "U+4E66", "U+6CD5", "U+5BB6", "U+8BB0", "U+5F55">> (* 的书法家记录 *)

\* The value a shape looks up: the name or the dynasty among its tokens.
LookedUp(toks) ==
    toks[CHOOSE i \in 1..Len(toks) : toks[i].type \in {"CHINESE_NAME", "DYNASTY"}].value

\* The value is absent from what the shape's rule looks it up in.
Absent(name, X) ==
    CASE name = "find_style" -> ~HasKey(styles, X)
      [] name = "find_direct" ->
           ~HasKey(calligraphers, X)
           /\ \A i \in 1..Len(calligraphers) : ~InList(X, calligraphers[i].works)
      [] name = "find_dynasty_calligraphers" ->
           \A i \in 1..Len(calligraphers) : calligraphers[i].dynasty # X
      [] OTHER -> ~HasKey(calligraphers, X)

\* C10: a call whose tokens are one shape, with a name or dynasty absent
\* from the table the shape looks it up in, returns that shape's not-found
\* text with the value, and neither the not-understood text nor an error text.
C10_AbsenceIsData ==
    \A t \in Threads : Done(t) =>
        \A k \in ShapeRules :
            (Kinds(emitted[t]) = Productions[k].rhs
                /\ Absent(Productions[k].name, LookedUp(emitted[t]))) =>
                /\ result[t] = NotFoundText(Productions[k].name, LookedUp(emitted[t]))
                /\ result[t] # NotUnderstood
                /\ ~StartsAt(result[t], 0, ErrorPrefix)

\* FIND STYLE NAME with a name that is no style.
C10_Witness ==
    /\ Done(1)
    /\ Kinds(emitted[1]) = <<"FIND", "STYLE", "CHINESE_NAME">>
    /\ emitted[1][3].value = <<"U+5170", "U+4EAD", "U+5E8F">> (* 兰亭序 *)
    /\ result[1] = <<"U+274C", " ", "U+672A", "U+627E", "U+5230", "U+5170", "U+4EAD", "U+5E8F", "U+4E66", "U+4F53", "U+7684", "U+8BE6", "U+7EC6", "U+8BF4", "U+660E">> (* ❌ 未找到兰亭序书体的详细说明 *)

\* Names that no table knows, with at least one character outside the name
\* class (未 stands for such a character; it is no keyword's and no filler).
UnknownNames ==
    {K \in ShortNames \cup {<<"U+672A", "U+77E5", "U+4EBA", "U+7269">> (* 未知人物 *), <<"U+738B", "U+7FB2", "U+4E4B", "U+672A">> (* 王羲之未 *), <<"U+672A", "U+738B", "U+7FB2", "U+4E4B">> (* 未王羲之 *)} :
        K \notin KnownNames /\ \E i \in 1..Len(K) : K[i] \notin t_CHINESE_NAME}

\* The records FIND NAME gives for the calligraphers and works of the tables.
FoundRecords ==
    {p_find_direct(CalligraphersInit, n) : n \in CalligrapherNames \cup WorkNames}

\* C11: FIND followed by an unknown name that has a character outside the
\* name class gives no NAME token equal to a known name, and the call
\* returns no record of an entity of the tables.
C11_NoFalsePositive ==
    \A t \in Threads : Done(t) =>
        \A f \in FindForms : \A K \in UnknownNames :
            text[t] = f \o K =>
                /\ \A i \in 1..Len(emitted[t]) :
                      emitted[t][i].type = "CHINESE_NAME" =>
                          emitted[t][i].value \notin KnownNames
                /\ result[t] \notin FoundRecords

\* The calligraphers, by their place in the table, that list n among their works.
Owners(n) == {i \in 1..Len(calligraphers) : InList(n, calligraphers[i].works)}

\* The text that says whose work n is.
WorkText(n, info) ==
    <<"U+1F4DC", " ">> (* 📜  *) \o n \o <<"U+662F">> (* 是 *) \o info.key \o <<"U+7684", "U+4EE3", "U+8868", "U+4F5C", "\n", " ", " ", " ", "U+4E66", "U+4F53", "U+FF1A">> (* 的代表作\n   书体： *) \o info.style
    \o <<"\n", " ", " ", " ", "U+671D", "U+4EE3", "U+FF1A">> (* \n   朝代： *) \o info.dynasty \o <<"\n", " ", " ", " ", "U+4E66", "U+6CD5", "U+5BB6", "U+7B80", "U+4ECB", "U+FF1A">> (* \n   书法家简介： *) \o info.description

\* C12: FIND n returns the work text for the first calligrapher of the
\* table that lists n among the works, also when n is a calligrapher's
\* name; else, for a calligrapher's name, the text FIND ROLE n returns;
\* else the generic not-found text.
C12_DirectOrder ==
    \A t \in Threads :
        (Done(t) /\ Kinds(emitted[t]) = <<"FIND", "CHINESE_NAME">>) =>
            \E n \in {emitted[t][2].value} :
                IF Owners(n) # {}
                THEN result[t] = WorkText(n, calligraphers[Least(Owners(n))])
                ELSE IF HasKey(calligraphers, n)
                THEN result[t] = p_find_calligrapher_detail(calligraphers, n)
                ELSE result[t] = GenericNotFound(n)

\* A name that is a calligrapher's and also a work of another
\* calligrapher: answered as the work.
C12_Witness ==
    /\ Done(1)
    /\ text[1] = <<"U+67E5", "U+8BE2", "U+738B", "U+7FB2", "U+4E4B">> (* 查询王羲之 *)
    /\ HasKey(calligraphers, <<"U+738B", "U+7FB2", "U+4E4B">> (* 王羲之 *))
    /\ Owners(<<"U+738B", "U+7FB2", "U+4E4B">> (* 王羲之 *)) = {2}
    /\ result[1] = WorkText(<<"U+738B", "U+7FB2", "U+4E4B">> (* 王羲之 *), calligraphers[2])

RECURSIVE RosterFrom(_, _)
\* The calligraphers of dynasty c from place i of the table on, each as
\* name（style）, in table order.
RosterFrom(i, c) ==
    IF i > Len(calligraphers) THEN <<>>
    ELSE (IF calligraphers[i].dynasty = c
          THEN <<calligraphers[i].key \o <<"U+FF08">> (* （ *) \o calligraphers[i].style \o <<"U+FF09">> (* ） *)>>
          ELSE <<>>)
         \o RosterFrom(i + 1, c)

\* How often the text sub stands in the text s.
Occurrences(s, sub) == Cardinality({p \in 0..Len(s) : StartsAt(s, p, sub)})

\* C13: FIND D ROLE lists the calligraphers whose dynasty is the era of D,
\* each once, in table order, each with its own style, and no other
\* calligrapher; it returns the not-found text of rule 6 exactly when there
\* is none.
C13_RosterExact ==
    \A t \in Threads :
        (Done(t) /\ Kinds(emitted[t]) = <<"FIND", "DYNASTY", "CALLIGRAPHER">>) =>
            \E c \in {emitted[t][2].value} :
                /\ (RosterFrom(1, c) = <<>>) <=>
                       (result[t] = <<"U+274C", " ", "U+672A", "U+627E", "U+5230">> (* ❌ 未找到 *) \o c \o <<"U+7684", "U+4E66", "U+6CD5", "U+5BB6", "U+8BB0", "U+5F55">> (* 的书法家记录 *))
                /\ RosterFrom(1, c) # <<>> =>
                       result[t] = <<"U+1F3DB", "U+FE0F", " ">> (* 🏛  *) \o c \o <<"U+8457", "U+540D", "U+4E66", "U+6CD5", "U+5BB6", "U+FF1A", "\n", " ", " ", " ">> (* 著名书法家：\n    *)
                                   \o Join(<<"U+3001">> (* 、 *), RosterFrom(1, c))
                /\ \A i \in 1..Len(calligraphers) :
                       Occurrences(result[t], calligraphers[i].key) =
                           IF calligraphers[i].dynasty = c THEN 1 ELSE 0

\* 唐代: 颜真卿, 柳公权, 张旭 and 欧阳询, and only those.
C13_Witness ==
    /\ Done(1)
    /\ text[1] = <<"U+67E5", "U+627E", "U+5510", "U+4EE3", "U+4E66", "U+6CD5", "U+540D", "U+5BB6">> (* 查找唐代书法名家 *)
    /\ result[1] = <<"U+1F3DB", "U+FE0F", " ", "U+5510", "U+4EE3", "U+8457", "U+540D", "U+4E66", "U+6CD5", "U+5BB6", "U+FF1A", "\n", " ", " ", " ", "U+989C", "U+771F", "U+537F", "U+FF08", "U+6977", "U+4E66", "U+FF09", "U+3001", "U+67F3", "U+516C", "U+6743", "U+FF08", "U+6977", "U+4E66", "U+FF09", "U+3001", "U+5F20", "U+65ED", "U+FF08", "U+8349", "U+4E66", "U+FF09", "U+3001", "U+6B27", "U+9633", "U+8BE2", "U+FF08", "U+6977", "U+4E66", "U+FF09">> (* 🏛 唐代著名书法家：\n   颜真卿（楷书）、柳公权（楷书）、张旭（草书）、欧阳询（楷书） *)

\* C14: the scan never stands still and never aborts.  From every position
\* of a text given to the lexer (looked at when the text has just been
\* given) one pass of the loop moves on by at least one character and
\* stays within the text; a character no rule matches is skipped alone and
\* gives no token; the tokens of a call come from rising positions, are no
\* more than the text has characters, and a NAME token's value is a
\* non-empty run of characters of the name class.
C14_ScanProgress ==
    /\ lexpos = 0 =>
          \A pos \in 0..(Len(lexdata) - 1) :
          \E s \in {ScanStep(lexdata, pos, lineno)} :
              /\ s.pos > pos
              /\ s.pos <= Len(lexdata)
              /\ s.kind = "skip" => (s.pos = pos + 1 /\ s.tok = NoToken)
              /\ s.kind = "ignore" => (s.pos = pos + 1 /\ s.tok = NoToken)
              /\ s.kind = "token" => (s.tok.type \in tokens /\ s.tok.lexpos = pos)
    /\ lexpos <= Len(lexdata) + 1
    /\ \A t \in Threads :
          /\ Len(emitted[t]) <= Len(text[t])
          /\ \A i \in 1..Len(emitted[t]) :
                /\ emitted[t][i].type \in tokens
                /\ i > 1 => emitted[t][i].lexpos > emitted[t][i - 1].lexpos
                /\ emitted[t][i].type = "CHINESE_NAME" =>
                      /\ emitted[t][i].value # <<>>
                      /\ Range(emitted[t][i].value) \subseteq t_CHINESE_NAME
          /\ Done(t) => token(lexdata, lexpos, lineno).tok = NoToken

\* A text that begins with a character no rule knows: it is skipped, and
\* the scan goes on to the end of the text.
C14_Witness ==
    /\ Done(1)
    /\ text[1] = <<"U+672A", "U+67E5", "U+8BE2", "U+738B", "U+7FB2", "U+4E4B">> (* 未查询王羲之 *)
    /\ Kinds(emitted[1]) = <<"FIND", "CHINESE_NAME">>
    /\ emitted[1][1].lexpos = 1
    /\ lexpos = Len(text[1]) + 1

\* The text of rule 5 for a calligrapher of the table: the style, and the
\* description the styles table has for it or else the placeholder.
StyleText(K) ==
    <<"U+1F3AF", " ">> (* 🎯  *) \o K \o <<"U+7684", "U+4E66", "U+6CD5", "U+98CE", "U+683C", "U+FF1A", "\n", " ", " ", " ", "U+64C5", "U+957F">> (* 的书法风格：\n   擅长 *) \o Entry(calligraphers, K).style
    \o <<"U+4E66", "U+4F53", "\n", " ", " ", " ", "U+98CE", "U+683C", "U+7279", "U+70B9", "U+FF1A">> (* 书体\n   风格特点： *)
    \o (IF HasKey(styles, Entry(calligraphers, K).style)
        THEN Entry(styles, Entry(calligraphers, K).style).description
        ELSE <<"U+6682", "U+65E0", "U+8BE6", "U+7EC6", "U+63CF", "U+8FF0">> (* 暂无详细描述 *))

\* C15: for a calligrapher K of the table, FIND K STYLE in every surface
\* form returns the style text of K, with the placeholder when the styles
\* table lacks K's style, and never a not-found text.
C15_StyleOfCalligrapher ==
    \A t \in Threads : Done(t) =>
        \A f \in FindForms : \A w \in StyleForms :
            \A i \in 1..Len(calligraphers) :
                text[t] = f \o calligraphers[i].key \o w =>
                    result[t] = StyleText(calligraphers[i].key)

\* Some style names a master that is no calligrapher of the table.
MasterGap ==
    \E i \in 1..Len(styles) : \E m \in Range(styles[i].masters) :
        ~HasKey(calligraphers, m)

\* Some calligrapher has a style that is no style of the styles table.
StyleGap == \E i \in 1..Len(calligraphers) : ~HasKey(styles, calligraphers[i].style)

\* C16 as stated: the tables of __init__ have both gaps.
C16_BothGaps == MasterGap /\ StyleGap

\* C16 amended: the tables of __init__ have the first gap only.  A style
\* names masters that are no calligraphers of the table, but every
\* calligrapher's style is a style of the styles table, so no call returns
\* the placeholder of rule 5.
C16_MasterGapOnly ==
    /\ MasterGap
    /\ ~StyleGap
    /\ \A t \in Threads : Done(t) => ~Contains(result[t], <<"U+6682", "U+65E0", "U+8BE6", "U+7EC6", "U+63CF", "U+8FF0">> (* 暂无详细描述 *))

\* Rule 5 for 张旭: the description of 草书 from the styles table, whose
\* master 怀素 is no calligrapher of the table.
C16_Witness ==
    /\ Done(1)
    /\ text[1] = <<"U+641C", "U+7D22", "U+5F20", "U+65ED", "U+98CE", "U+683C">> (* 搜索张旭风格 *)
    /\ result[1] = StyleText(<<"U+5F20", "U+65ED">> (* 张旭 *))
    /\ Contains(result[1], Entry(styles, <<"U+8349", "U+4E66">> (* 草书 *)).description)
    /\ InList(<<"U+6000", "U+7D20">> (* 怀素 *), Entry(styles, <<"U+8349", "U+4E66">> (* 草书 *)).masters)
    /\ ~HasKey(calligraphers, <<"U+6000", "U+7D20">> (* 怀素 *))

\* C17: the calligraphers table and the styles table are, in every state
\* that calls of parse can reach, what __init__ made them.
C17_TablesUnchanged ==
    /\ calligraphers = CalligraphersInit
    /\ styles = StylesInit

\* After a call that found a record and a call that was not understood.
C17_Witness ==
    /\ Done(1) /\ Done(2)
    /\ result[1] = p_find_direct(CalligraphersInit, <<"U+738B", "U+7FB2", "U+4E4B">> (* 王羲之 *))
    /\ result[2] = NotUnderstood
    /\ errorok = FALSE
    /\ calligraphers = CalligraphersInit
    /\ styles = StylesInit

\* What parse returns for a text of ConcurrentInputs when the call runs
\* alone on the instance.
AloneResult(s) ==
    CASE s = <<"U+67E5", "U+8BE2", "U+738B", "U+7FB2", "U+4E4B">> (* 查询王羲之 *) -> p_find_direct(CalligraphersInit, <<"U+738B", "U+7FB2", "U+4E4B">> (* 王羲之 *))
      [] s = <<"U+67E5", "U+8BE2", "U+82CF", "U+8F7C", "U+98CE", "U+683C">> (* 查询苏轼风格 *) ->
           p_find_calligrapher_style(CalligraphersInit, StylesInit, <<"U+82CF", "U+8F7C">> (* 苏轼 *))
      [] s = <<"U+67E5", "U+8BE2", "U+5510", "U+4EE3", "U+4E66", "U+6CD5", "U+5BB6">> (* 查询唐代书法家 *) -> p_find_dynasty_calligraphers(CalligraphersInit, <<"U+5510", "U+4EE3">> (* 唐代 *))
      [] s = <<"U+4E66", "U+6CD5", "U+5BB6", "U+67E5", "U+8BE2", "U+738B", "U+7FB2", "U+4E4B">> (* 书法家查询王羲之 *) -> p_find_direct(CalligraphersInit, <<"U+738B", "U+7FB2", "U+4E4B">> (* 王羲之 *))
      [] OTHER -> NotUnderstood

\* C18: a call during which no other call was inside parse returns what it
\* returns alone, whether it came first or second; and the lexer's text
\* is that of the call that started last, so a call that another call
\* overlapped scans a text that is not its own.
C18_SerializedCallsAlone ==
    /\ \A t \in Threads :
          (Done(t) /\ ~overlapped[t]) => result[t] = AloneResult(text[t])
    /\ \A t \in Threads :
          (pc[t] = "run" /\ ~overlapped[t]) => lexdata = text[t]
    /\ (pc[1] = "run" /\ pc[2] = "run") => (overlapped[1] /\ overlapped[2])

\* Two calls that interleaved: the first was scanning the text of the
\* second, and returned something other than what it returns alone.
C18_Witness ==
    /\ Done(1) /\ Done(2)
    /\ overlapped[1] /\ overlapped[2]
    /\ text[1] = <<"U+67E5", "U+8BE2", "U+738B", "U+7FB2", "U+4E4B">> (* 查询王羲之 *)
    /\ text[2] = <<"U+67E5", "U+8BE2", "U+5510", "U+4EE3", "U+4E66", "U+6CD5", "U+5BB6">> (* 查询唐代书法家 *)
    /\ lexdata = text[2]
    /\ result[1] # AloneResult(text[1])

\* The calls process_query has finished, as the log holds them.
Finished(P(_)) == Cardinality({i \in 1..Len(log.responses) : P(log.responses[i])})

IsQueryResponse(r) == r.response_type = <<"U+67E5", "U+8BE2", "U+7C7B">> (* 查询类 *)

IsGreetingResponse(r) == r.response_type = <<"U+95EE", "U+5019", "U+7C7B">> (* 问候类 *)

IsFailure(r) == ~r.success

\* C19: session accounting of process_query.  Whenever no process_query is
\* in progress, total_queries = successful_queries + greeting_responses +
\* failed_queries; each finished call is counted in exactly one of the
\* three (the counters are the numbers of logged results of the three
\* kinds, and the kinds exclude each other); log["queries"] and
\* log["responses"] have length total_queries and log["errors"] has length
\* failed_queries.  At all times, dsl.parse is entered only with a response
\* that starts with one of the FIND surface forms, and a logged result
\* carries a DSL result exactly when its response starts with one.
C19_SessionAccounting ==
    /\ query = None =>
          /\ session_stats.total_queries =
                session_stats.successful_queries + session_stats.greeting_responses
                    + session_stats.failed_queries
          /\ session_stats.successful_queries = Finished(IsQueryResponse)
          /\ session_stats.greeting_responses = Finished(IsGreetingResponse)
          /\ session_stats.failed_queries = Finished(IsFailure)
          /\ Len(log.queries) = session_stats.total_queries
          /\ Len(log.responses) = session_stats.total_queries
          /\ Len(log.errors) = session_stats.failed_queries
    /\ \A i \in 1..Len(log.responses) :
          /\ Cardinality({P \in {1, 2, 3} :
                 \/ P = 1 /\ IsQueryResponse(log.responses[i])
                 \/ P = 2 /\ IsGreetingResponse(log.responses[i])
                 \/ P = 3 /\ IsFailure(log.responses[i])}) = 1
          /\ log.responses[i].query = log.queries[i]
          /\ log.responses[i].dsl_result # None <=>
                /\ log.responses[i].llm_response # None
                /\ startswith(log.responses[i].llm_response, FindForms)
    /\ pc[1] # "idle" => startswith(text[1], FindForms)
    /\ pc[2] = "idle"

\* Three calls have finished, one of each kind: a response the DSL parsed,
\* a response that is a DSL sentence but does not start with a FIND form
\* and so was counted as a greeting, and an LLM call that raised.
C19_Witness ==
    /\ query = None
    /\ session_stats.total_queries = 3
    /\ session_stats.successful_queries = 1
    /\ session_stats.greeting_responses = 1
    /\ session_stats.failed_queries = 1
    /\ \E i \in 1..3 :
          /\ log.responses[i].llm_response = <<"U+4E66", "U+6CD5", "U+5BB6", "U+67E5", "U+8BE2", "U+738B", "U+7FB2", "U+4E4B">> (* 书法家查询王羲之 *)
          /\ IsGreetingResponse(log.responses[i])
    /\ \E i \in 1..3 :
          /\ log.responses[i].llm_response = <<"U+67E5", "U+8BE2", "U+738B", "U+7FB2", "U+4E4B">> (* 查询王羲之 *)
          /\ log.responses[i].dsl_result = p_find_direct(CalligraphersInit, <<"U+738B", "U+7FB2", "U+4E4B">> (* 王羲之 *))

====
